---------------------------- MODULE Spec2Model ----------------------------
(***************************************************************************)
(* State-machine model of the HLTradingViewTest charting front end:        *)
(*   - UnifiedDatafeed symbol routing        (src/unified-datafeed.js)     *)
(*   - LighterAPI order-book reconciliation  (src/lighter-api.js)          *)
(*   - real-time bar subscriptions           (src/datafeed.js,             *)
(*       src/unnamed/part_001, src/ostium-api.js, src/unnamed/part_002)    *)
(*   - TradingViewApp order-book switching   (src/app.js)                  *)
(*                                                                         *)
(* Strings the code takes apart are modelled as sequences of tokens: the   *)
(* token "USD" is the three characters USD, ":" is the prefix separator,   *)
(* "/" and "-" are market-name separators; no other token ends in USD or   *)
(* contains a separator.  "BTCUSD" is <<"BTC","USD">>.                     *)
(***************************************************************************)
EXTENDS Integers, Sequences, FiniteSets, TLC

(***************************************************************************)
(* Bounds of the model.                                                    *)
(***************************************************************************)
\* number of markets the Lighter markets endpoint returns
MaxLighterMarkets == 2
\* number of trailing "USD" tokens put on a queried name
MaxUsdSuffix == 2
\* number of bid levels in one order-book message
MaxBidLevels == 3
\* number of ask levels in one order-book message
MaxAskLevels == 1
\* number of subscribeBars calls in a run
MaxBarCalls == 3

VARIABLES
    symbols,            \* exchange -> sequence of tickers (keys of the adapter's symbols Map, insertion order)
    symbolExchangeMap,  \* UnifiedDatafeed.symbolExchangeMap, a function from names to exchanges
    isInitialized,      \* UnifiedDatafeed.isInitialized
    initialized,        \* set of adapters whose initialize() has resolved
    lastRoute,          \* last getExchangeForSymbol call: [called, name, result]
    subscribers,        \* WebSocket client -> its subscribers Map: sequence of [key, cbs] in insertion order
    orderBookCache,     \* LighterAPI.orderBookCache: market -> [bids, asks]
    lastBook,           \* what the last Lighter order-book message did: [type, outcome, invoked, levels]
    wsState,            \* WebSocket client -> "none" (this.ws is null), "CONNECTING" or "OPEN"
    isConnecting,       \* WebSocket client -> this.isConnecting
    tasks,              \* async calls suspended in await connectWebSocket(), oldest first
    streams,            \* WebSocket client -> channels the server streams on the current socket
    closing,            \* WebSocket client -> streamed channels whose unsubscribe message is on its way
    activeSubscriptions,\* UnifiedDatafeed.activeSubscriptions: subscriber id -> exchange
    barSubs,            \* exchange -> the adapter's subscribers Map: subscriber id -> [symbol, cb]
    ostiumHandlers,     \* OstiumAPI.subscribers: symbol -> sequence of handlers
    sse,                \* OstiumAPI price stream: "idle", "connecting" or "open"
    calls,              \* number of subscribeBars calls made; call n passes the chart callback n
    everUnder,          \* history: subscriber id -> callbacks registered under it so far
    retired,            \* history: callbacks registered under an id before an unsubscribeBars(id) that returned
    replaced,           \* history: callbacks superseded by a repeated subscribeBars of the same id and symbol
    invokedNow,         \* history: chart callbacks invoked by the step just taken
    chartReady,         \* TradingViewApp: onChartReady has run
    currentSymbol,      \* TradingViewApp.currentSymbol
    currentExchange,    \* TradingViewApp.currentExchange ("null" before the chart is ready)
    activeOrderBookSubscription, \* TradingViewApp.activeOrderBookSubscription: [set, symbol, exchange, subscriptionKey]
    inits,              \* number of panel updates started (chart ready, symbol changes); update n passes the order-book callback n
    lastSwitch,         \* history: the last symbol change the handler acted on: [set, from, to, fromExchange, toExchange, init]
    resolvedSymbolExchange, \* UnifiedDatafeed.resolvedSymbolExchange: symbolInfo object -> exchange
    resolving,          \* resolveSymbol calls whose setTimeout callback has not run: [symbolInfo, exchange]
    resolves,           \* number of resolveSymbol calls made
    lastRequestedSymbol,\* UnifiedDatafeed.lastRequestedSymbol (<<>> is null)
    lastResolve,        \* history: the last OstiumDatafeed.resolveSymbol call for a form of a ticker: [called, ticker, symbolName, symbolInfo]
    lastDelegate,       \* history: the adapter the last getBars / subscribeBars went to: [called, op, symbolInfo, exchange]
    lastBars,           \* OstiumDatafeed.lastBars: key <<symbol, resolution>> -> bar
    lastEmitted,        \* history: the bar emitted last before the latest tick, then the bars that tick emitted
    lastAligned,        \* history: the last getBarTime calls for two ticks under one resolution: [called, resolution, t1, t2, barTime1, barTime2]
    lastTick,           \* history: the latest tick [n, symbol, price, timestamp, ordered]; ordered: no tick so far was older than its predecessor
    reconnectAttempts,  \* HyperLiquidAPI.reconnectAttempts
    reconnectTimers,    \* number of reconnect timers of handleWebSocketClose that have not fired
    pollers,            \* number of connectWebSocket promises that poll for an open socket
    orphans,            \* sockets this.ws no longer names whose handlers are set: [connecting, open, closing] counts
    wsLog,              \* history: [calls, deliberate, opened, inFlight, autoSince], see WsConstructed
    sseReconnectAttempts, \* OstiumAPI.reconnectAttempts
    sseTimers,          \* number of reconnect timers of OstiumAPI that have not fired
    sseOrphans,         \* number of streams being read that sseAbortController no longer aborts
    sseAutoSince,       \* history: connectSSE calls of reconnect timers that started a fetch since a fetch last succeeded
    lastUnsubscribe,    \* history: the last UnifiedDatafeed.unsubscribeBars call: [called, found, outcome, adapter]
    requestQueue,       \* HyperLiquidAPI.requestQueue: the requests waiting, as their submission numbers
    isProcessingQueue,  \* HyperLiquidAPI.isProcessingQueue
    lastRequestTime,    \* HyperLiquidAPI.lastRequestTime (ms)
    now,                \* Date.now() (ms)
    processor,          \* where processRequestQueue stands: "idle", "waiting" (rate-limit timer) or "fetching"
    dispatched,         \* history: the requests passed to fetch, in the order of the calls
    queueOwner,         \* the client whose queue requestQueue is: an exchange name
    inFlight,           \* the requests passed to fetch whose fetch has not settled
    lastCandles,        \* history: the last getCandles call: [called, startTime, endTime, outcome]
    lastGetBars,        \* history: the last getBars call of the adapter: [called, fetch, onHistory, bars, noData, onError]
    lastMessage,        \* history: the latest message of a stream handler: [client, channel, key, threw, invoked, escaped, failedBefore]
    bookInvoked         \* history: <<client, coin>> of the order-book message that invoked a callback in the step just taken

routeVars == <<symbols, symbolExchangeMap, isInitialized, initialized, lastRoute>>

bookVars == <<subscribers, orderBookCache, lastBook>>

connVars == <<wsState, isConnecting, tasks, streams, closing>>

barVars == <<activeSubscriptions, barSubs, ostiumHandlers, sse, calls,
             everUnder, retired, replaced, invokedNow>>

appVars == <<chartReady, currentSymbol, currentExchange, activeOrderBookSubscription, inits, lastSwitch, bookInvoked>>

resolveVars == <<resolvedSymbolExchange, resolving, resolves, lastRequestedSymbol, lastDelegate, lastResolve>>

tickVars == <<lastBars, lastEmitted, lastTick, lastAligned>>
lifeVars == <<reconnectAttempts, reconnectTimers, pollers, orphans, wsLog>>
sseVars == <<sseReconnectAttempts, sseTimers, sseOrphans, sseAutoSince>>
queueVars == <<requestQueue, isProcessingQueue, lastRequestTime, now, processor, dispatched,
               queueOwner, inFlight, lastCandles, lastGetBars>>
laterVars == <<tickVars, lifeVars, sseVars, lastUnsubscribe, queueVars, lastMessage>>
vars == <<routeVars, bookVars, connVars, barVars, appVars, resolveVars, laterVars>>

(***************************************************************************)
(* Sequence helpers.                                                       *)
(***************************************************************************)
Range(s) == {s[i] : i \in 1..Len(s)}

Contains(s, x) == \E i \in 1..Len(s) : s[i] = x

\* Map.set on a key list: a new key goes last, an existing key keeps its place
SetKey(keys, k) == IF Contains(keys, k) THEN keys ELSE Append(keys, k)

(***************************************************************************)
(* String operations of the code on token sequences.                       *)
(***************************************************************************)
\* s.replace(/USD$/, '')
StripUSD(s) == IF Len(s) > 0 /\ s[Len(s)] = "USD" THEN SubSeq(s, 1, Len(s) - 1) ELSE s

\* `${s}USD`
WithUSD(s) == Append(s, "USD")

\* `${exchange}:${s}`
WithPrefix(exchange, s) == <<exchange, ":">> \o s

\* s.includes(':')
HasColon(s) == Contains(s, ":")

FirstColon(s) == CHOOSE i \in 1..Len(s) : s[i] = ":" /\ \A j \in 1..(i - 1) : s[j] # ":"

\* s.split(':')[0]
SplitHead(s) == SubSeq(s, 1, FirstColon(s) - 1)

\* s.split(':')[1]
SplitSecond(s) ==
    LET rest == SubSeq(s, FirstColon(s) + 1, Len(s))
    IN  IF HasColon(rest) THEN SubSeq(rest, 1, FirstColon(rest) - 1) ELSE rest

(***************************************************************************)
(* UnifiedDatafeed: symbol routing.                                        *)
(***************************************************************************)
ExchangeOrder == <<"HYPERLIQUID", "OSTIUM", "LIGHTER">>

ExchangeNames == Range(ExchangeOrder)

rwaSymbols == <<  <<"SPX">>, <<"EUR", "USD">>  >>

\* HyperLiquidDatafeed.initialize: the default symbols, in order
HyperLiquidDefaultSymbols == << <<"BTC">>, <<"ETH">>, <<"SOL">>, <<"AVAX">>, <<"MATIC">> >>

\* OstiumDatafeed.initialize: the registered symbols, in order
OstiumDefaultSymbols == << <<"EUR", "USD">>, <<"SPX">> >>

\* LighterDatafeed.normalizeSymbol: separators removed (names are upper case already)
RECURSIVE normalizeSymbol(_)
normalizeSymbol(raw) ==
    IF Len(raw) = 0 THEN <<>>
    ELSE IF Head(raw) \in {"/", "-", "_"} THEN normalizeSymbol(Tail(raw))
    ELSE <<Head(raw)>> \o normalizeSymbol(Tail(raw))

\* market.symbol values the Lighter markets endpoint may return
LighterRawSymbols ==
    { <<"BTC">>, <<"BTC", "/", "USD">>, <<"LINK">>, <<"LINK", "-", "USD">>,
      <<"EUR">>, <<"EUR", "/", "USD">>, <<"SPX">> }

\* LighterDatafeed.initialize: symbols.set(normalizeSymbol(market.symbol), ...) per market
RECURSIVE LighterRegister(_, _)
LighterRegister(keys, markets) ==
    IF Len(markets) = 0 THEN keys
    ELSE LighterRegister(SetKey(keys, normalizeSymbol(Head(markets))), Tail(markets))

\* buildSymbolMap, first half: symbolSources keys in insertion order
RECURSIVE CollectKeys(_, _)
CollectKeys(keys, table) ==
    IF Len(table) = 0 THEN keys
    ELSE CollectKeys(SetKey(keys, Head(table)), Tail(table))

SourceKeys(tabs) ==
    CollectKeys(CollectKeys(CollectKeys(<<>>, tabs["HYPERLIQUID"]), tabs["OSTIUM"]), tabs["LIGHTER"])

\* buildSymbolMap: symbolSources.get(symbol), the exchanges claiming it, in collection order
SourcesOf(tabs, symbol) ==
    SelectSeq(ExchangeOrder, LAMBDA e : Contains(tabs[e], symbol))

\* Map.set on the function modelling symbolExchangeMap
MapSet(m, k, v) == (k :> v) @@ m

RECURSIVE RegisterPrefixed(_, _, _)
RegisterPrefixed(m, symbol, exchanges) ==
    IF Len(exchanges) = 0 THEN m
    ELSE LET e  == Head(exchanges)
             m1 == MapSet(m, WithPrefix(e, symbol), e)
             m2 == MapSet(m1, WithPrefix(e, WithUSD(symbol)), e)
         IN  RegisterPrefixed(m2, symbol, Tail(exchanges))

\* variant of the registration loop that also registers a conflicting symbol
\* without prefix, for the exchange collected last
RegisterSymbolLastWins(m, symbol, exchanges) ==
    LET last == exchanges[Len(exchanges)]
        m1   == MapSet(MapSet(m, symbol, last), WithUSD(symbol), last)
    IN  RegisterPrefixed(m1, symbol, exchanges)

\* buildSymbolMap, second half: one iteration of the registration loop
RegisterSymbol(m, symbol, exchanges) ==
    LET m1 == IF Len(exchanges) = 1
              THEN MapSet(MapSet(m, symbol, exchanges[1]), WithUSD(symbol), exchanges[1])
              ELSE m
    IN  RegisterPrefixed(m1, symbol, exchanges)

RECURSIVE RegisterAll(_, _, _)
RegisterAll(m, keys, tabs) ==
    IF Len(keys) = 0 THEN m
    ELSE RegisterAll(RegisterSymbol(m, Head(keys), SourcesOf(tabs, Head(keys))), Tail(keys), tabs)

buildSymbolMap(m, tabs) == RegisterAll(m, SourceKeys(tabs), tabs)

MapHas(m, k) == k \in DOMAIN m

\* variant of getExchangeForSymbol that consults symbolExchangeMap before the curated list
getExchangeForSymbolMapFirst(m, symbolName) ==
    IF HasColon(symbolName) /\ SplitHead(symbolName) \in {<<e>> : e \in ExchangeNames}
    THEN SplitHead(symbolName)[1]
    ELSE LET cleanSymbol == IF HasColon(symbolName) THEN SplitSecond(symbolName) ELSE symbolName
             testSymbol  == StripUSD(cleanSymbol)
         IN  IF MapHas(m, cleanSymbol) THEN m[cleanSymbol]
             ELSE IF MapHas(m, testSymbol) THEN m[testSymbol]
             ELSE IF Contains(rwaSymbols, testSymbol) \/ Contains(rwaSymbols, cleanSymbol) THEN "OSTIUM"
             ELSE "HYPERLIQUID"

getExchangeForSymbol(m, symbolName) ==
    IF HasColon(symbolName) /\ SplitHead(symbolName) \in {<<e>> : e \in ExchangeNames}
    THEN SplitHead(symbolName)[1]
    ELSE LET cleanSymbol == IF HasColon(symbolName) THEN SplitSecond(symbolName) ELSE symbolName
             testSymbol  == StripUSD(cleanSymbol)
         IN  IF Contains(rwaSymbols, testSymbol) \/ Contains(rwaSymbols, cleanSymbol) THEN "OSTIUM"
             ELSE IF MapHas(m, cleanSymbol) THEN m[cleanSymbol]
             ELSE IF MapHas(m, testSymbol) THEN m[testSymbol]
             ELSE "HYPERLIQUID"

(***************************************************************************)
(* WebSocket clients: the subscribers Map.                                 *)
(* A key `${coin}_${kind}` is the pair <<coin, kind>>.                     *)
(***************************************************************************)
WsClients == {"HYPERLIQUID", "LIGHTER"}

\* subscribers.has(key)
SubsHas(S, key) == \E i \in 1..Len(S) : S[i].key = key

\* subscribers.get(key), the callbacks in insertion order (<<>> when the key is absent)
SubsGet(S, key) == IF SubsHas(S, key) THEN S[CHOOSE i \in 1..Len(S) : S[i].key = key].cbs ELSE <<>>

\* subscribers.set(key, cbs) / mutation of the Set stored under key
SubsPut(S, key, cbs) ==
    IF SubsHas(S, key)
    THEN [i \in 1..Len(S) |-> IF S[i].key = key THEN [key |-> key, cbs |-> cbs] ELSE S[i]]
    ELSE Append(S, [key |-> key, cbs |-> cbs])

\* subscribers.delete(key)
SubsDelete(S, key) == SelectSeq(S, LAMBDA e : e.key # key)

\* subscribeToOrderBook adding its callback to the callbacks it finds
RegisterOrderBookAdding(S, coin, cb) ==
    SubsPut(S, <<coin, "orderbook">>, Append(SubsGet(S, <<coin, "orderbook">>), cb))

\* subscribeToOrderBook after the await: existing callbacks cleared, the new one added
RegisterOrderBook(S, coin, cb) == SubsPut(S, <<coin, "orderbook">>, <<cb>>)

(***************************************************************************)
(* LighterAPI: order-book reconciliation.                                  *)
(* Level fields are the strings the feed sends; parseFloat is a table.     *)
(***************************************************************************)
parseFloat ==
    ("0" :> 0) @@ ("3" :> 3) @@ ("4" :> 4) @@ ("5" :> 5) @@
    ("100" :> 100) @@ ("100.0" :> 100) @@ ("101" :> 101) @@ ("102" :> 102)

\* levels.slice(0, 50)
PublishDepth == 50

\* formatLevels: every level becomes {px, sz}
formatLevels(levels) == [i \in 1..Len(levels) |-> [px |-> levels[i].px, sz |-> levels[i].sz]]

\* the comparator of the sort: negative when a goes before b
CompareLevels(a, b, side) ==
    IF side = "bids" THEN parseFloat[b.px] - parseFloat[a.px] ELSE parseFloat[a.px] - parseFloat[b.px]

\* Array.prototype.sort with that comparator (stable)
RECURSIVE SortLevels(_, _)
SortLevels(levels, side) ==
    IF Len(levels) <= 1 THEN levels
    ELSE LET rest == SortLevels(SubSeq(levels, 1, Len(levels) - 1), side)
             x    == levels[Len(levels)]
             k    == Cardinality({i \in 1..Len(rest) : CompareLevels(rest[i], x, side) <= 0})
         IN  SubSeq(rest, 1, k) \o <<x>> \o SubSeq(rest, k + 1, Len(rest))

\* variant of the delta loop body in which a zero size is stored like any other size
ApplyLevelUpdateKeepZero(levels, update) ==
    IF \E i \in 1..Len(levels) : levels[i].px = update.px
    THEN [i \in 1..Len(levels) |-> IF levels[i].px = update.px
                                    THEN [px |-> update.px, sz |-> update.sz] ELSE levels[i]]
    ELSE Append(levels, [px |-> update.px, sz |-> update.sz])

\* one iteration of the delta loop: remove, update in place, or push
ApplyLevelUpdate(levels, update) ==
    IF parseFloat[update.sz] = 0
    THEN SelectSeq(levels, LAMBDA l : l.px # update.px)
    ELSE IF \E i \in 1..Len(levels) : levels[i].px = update.px
         THEN LET existingIndex == CHOOSE i \in 1..Len(levels) :
                                      /\ levels[i].px = update.px
                                      /\ \A j \in 1..(i - 1) : levels[j].px # update.px
              IN  [levels EXCEPT ![existingIndex].sz = update.sz]
         ELSE Append(levels, [px |-> update.px, sz |-> update.sz])

RECURSIVE ApplyLevelUpdates(_, _)
ApplyLevelUpdates(levels, updates) ==
    IF Len(updates) = 0 THEN levels
    ELSE ApplyLevelUpdates(ApplyLevelUpdate(levels, Head(updates)), Tail(updates))

\* the delta branch on a cached book: both loops, then both sorts
ApplyDelta(book, bids, asks) ==
    [bids |-> SortLevels(ApplyLevelUpdates(book.bids, bids), "bids"),
     asks |-> SortLevels(ApplyLevelUpdates(book.asks, asks), "asks")]

\* the orderBook.levels handed to the callbacks
PublishedLevels(book) ==
    <<SubSeq(book.bids, 1, IF Len(book.bids) < PublishDepth THEN Len(book.bids) ELSE PublishDepth),
      SubSeq(book.asks, 1, IF Len(book.asks) < PublishDepth THEN Len(book.asks) ELSE PublishDepth)>>

\* variant of the handler that starts a book from a delta when none is cached
handleOrderBookBuffering(S, cache, msg) ==
    LET cbs  == SubsGet(S, <<msg.market, "orderbook">>)
        book == IF msg.market \in DOMAIN cache /\ msg.type = "update/order_book"
                THEN ApplyDelta(cache[msg.market], msg.bids, msg.asks)
                ELSE [bids |-> formatLevels(msg.bids), asks |-> formatLevels(msg.asks)]
    IN  IF cbs = <<>>
        THEN [cache |-> cache, outcome |-> "ignored", invoked |-> <<>>, levels |-> <<>>]
        ELSE [cache |-> MapSet(cache, msg.market, book), outcome |-> "published",
              invoked |-> cbs, levels |-> PublishedLevels(book)]

\* handleWebSocketMessage without the test for registered callbacks
handleOrderBookUnchecked(S, cache, msg) ==
    LET cbs == SubsGet(S, <<msg.market, "orderbook">>)
    IN  IF msg.type = "subscribed/order_book"
        THEN LET book == [bids |-> formatLevels(msg.bids), asks |-> formatLevels(msg.asks)]
             IN  [cache |-> MapSet(cache, msg.market, book), outcome |-> "published",
                  invoked |-> cbs, levels |-> PublishedLevels(book)]
        ELSE IF msg.type = "update/order_book"
        THEN IF msg.market \notin DOMAIN cache
             THEN [cache |-> cache, outcome |-> "dropped", invoked |-> <<>>, levels |-> <<>>]
             ELSE LET book == ApplyDelta(cache[msg.market], msg.bids, msg.asks)
                  IN  [cache |-> MapSet(cache, msg.market, book), outcome |-> "published",
                       invoked |-> cbs, levels |-> PublishedLevels(book)]
        ELSE [cache |-> cache, outcome |-> "unknown", invoked |-> <<>>, levels |-> <<>>]

\* handleWebSocketMessage on a message of channel order_book:<market>:
\* the cache afterwards, the path taken, the callbacks invoked and what they received
handleOrderBook(S, cache, msg) ==
    LET cbs == SubsGet(S, <<msg.market, "orderbook">>)
    IN  IF cbs = <<>>
        THEN [cache |-> cache, outcome |-> "ignored", invoked |-> <<>>, levels |-> <<>>]
        ELSE IF msg.type = "subscribed/order_book"
        THEN LET book == [bids |-> formatLevels(msg.bids), asks |-> formatLevels(msg.asks)]
             IN  [cache |-> MapSet(cache, msg.market, book), outcome |-> "published",
                  invoked |-> cbs, levels |-> PublishedLevels(book)]
        ELSE IF msg.type = "update/order_book"
        THEN IF msg.market \notin DOMAIN cache
             THEN [cache |-> cache, outcome |-> "dropped", invoked |-> <<>>, levels |-> <<>>]
             ELSE LET book == ApplyDelta(cache[msg.market], msg.bids, msg.asks)
                  IN  [cache |-> MapSet(cache, msg.market, book), outcome |-> "published",
                       invoked |-> cbs, levels |-> PublishedLevels(book)]
        ELSE [cache |-> cache, outcome |-> "unknown", invoked |-> <<>>, levels |-> <<>>]

\* HyperLiquidAPI.handleWebSocketMessage on an l2Book message for coin: the path taken
\* and the callbacks invoked
handleL2Book(S, coin) ==
    LET cbs == SubsGet(S, <<coin, "orderbook">>)
    IN  IF cbs = <<>>
        THEN [outcome |-> "ignored", invoked |-> <<>>]
        ELSE IF SubsHas(S, <<coin, "orderbook">>)
        THEN [outcome |-> "published", invoked |-> cbs]
        ELSE [outcome |-> "skipped", invoked |-> <<>>]

(***************************************************************************)
(* Real-time bars: HyperLiquidAPI candles, OstiumAPI ticks, the adapters.  *)
(***************************************************************************)
\* Map.delete on a function
MapDelete(m, k) == [x \in DOMAIN m \ {k} |-> m[x]]

\* Set.add on the insertion-ordered callbacks of a key
SetAdd(cbs, cb) == IF Contains(cbs, cb) THEN cbs ELSE Append(cbs, cb)

\* callbacks.splice(callbacks.indexOf(cb), 1) / Set.delete: the first occurrence goes
RemoveFirst(cbs, cb) ==
    IF ~Contains(cbs, cb) THEN cbs
    ELSE LET index == CHOOSE i \in 1..Len(cbs) : cbs[i] = cb /\ \A j \in 1..(i - 1) : cbs[j] # cb
         IN  SubSeq(cbs, 1, index - 1) \o SubSeq(cbs, index + 1, Len(cbs))

\* HyperLiquidAPI.convertInterval
convertInterval(resolution) ==
    IF resolution = "1" THEN "1m" ELSE IF resolution = "1D" THEN "1d" ELSE "1h"

\* connectWebSocket at the time of the call: resolved at once ("now"), resolved by
\* this call's socket opening ("onopen"), or by polling another call's socket ("poll")
ConnectWait(c) ==
    IF wsState[c] = "OPEN" THEN "now" ELSE IF isConnecting[c] THEN "poll" ELSE "onopen"

\* subscribeToCandles after the await: the callback joins the Set of its key
RegisterCandles(S, coin, interval, cb) ==
    SubsPut(S, <<coin, interval>>, SetAdd(SubsGet(S, <<coin, interval>>), cb))

\* unsubscribeFromCandles: the callback leaves the Set, an empty Set is deleted
UnregisterCandles(S, coin, interval, cb) ==
    IF ~SubsHas(S, <<coin, interval>>) THEN S
    ELSE IF RemoveFirst(SubsGet(S, <<coin, interval>>), cb) = <<>>
         THEN SubsDelete(S, <<coin, interval>>)
         ELSE SubsPut(S, <<coin, interval>>, RemoveFirst(SubsGet(S, <<coin, interval>>), cb))

\* handleWebSocketMessage on a candle: the callbacks of the exact key, else those of
\* the first key that names the coin or BTC
CandleTargets(S, coin, interval) ==
    IF SubsHas(S, <<coin, interval>>) THEN SubsGet(S, <<coin, interval>>)
    ELSE IF \E i \in 1..Len(S) : S[i].key[1] \in {coin, <<"BTC">>}
         THEN S[CHOOSE i \in 1..Len(S) :
                   /\ S[i].key[1] \in {coin, <<"BTC">>}
                   /\ \A j \in 1..(i - 1) : S[j].key[1] \notin {coin, <<"BTC">>}].cbs
         ELSE <<>>

\* OstiumAPI.subscribe
OstiumSubscribe(H, symbol, handler) ==
    MapSet(H, symbol, Append(IF symbol \in DOMAIN H THEN H[symbol] ELSE <<>>, handler))

\* OstiumAPI.unsubscribe
OstiumUnsubscribe(H, symbol, handler) ==
    IF symbol \notin DOMAIN H THEN H
    ELSE IF RemoveFirst(H[symbol], handler) = <<>> THEN MapDelete(H, symbol)
         ELSE MapSet(H, symbol, RemoveFirst(H[symbol], handler))

(***************************************************************************)
(* The message handlers of the streams.  T is the set of callbacks that    *)
(* throw when they are called with the message.                            *)
(***************************************************************************)
\* callbacks.forEach(callback => callback(m)) with no try around the call: the first
\* callback that throws ends the loop
forEachCallbackUncaught(cbs, T) ==
    IF \E i \in 1..Len(cbs) : cbs[i] \in T
    THEN [invoked |-> SubSeq(cbs, 1, CHOOSE i \in 1..Len(cbs) : cbs[i] \in T /\ \A j \in 1..(i - 1) : cbs[j] \notin T),
          thrown |-> TRUE]
    ELSE [invoked |-> cbs, thrown |-> FALSE]

\* callbacks.forEach(callback => { try { callback(m) } catch (error) { log } }): the
\* callbacks called and whether an exception leaves the loop
forEachCallback(cbs, T) == [invoked |-> cbs, thrown |-> FALSE]

\* HyperLiquidAPI.handleWebSocketMessage(data) for a parsed message of a channel
handleWebSocketMessage(S, data, T) ==
    IF data.channel = "candle" THEN forEachCallback(CandleTargets(S, data.key[1], data.key[2]), T)
    ELSE IF data.channel = "l2Book" THEN forEachCallback(handleL2Book(S, data.key[1]).invoked, T)
    ELSE [invoked |-> <<>>, thrown |-> FALSE]

\* ws.onmessage of HyperLiquidAPI: JSON.parse and handleWebSocketMessage inside one try;
\* channel "malformed" is a text JSON.parse rejects
onmessage(S, data, T) ==
    IF data.channel = "malformed" THEN [invoked |-> <<>>, escaped |-> FALSE]
    ELSE [invoked |-> handleWebSocketMessage(S, data, T).invoked, escaped |-> FALSE]

\* OstiumAPI.handlePriceUpdate(data) for a price of data.key[1]
handlePriceUpdate(H, data, T) ==
    forEachCallback(IF data.key[1] \in DOMAIN H THEN H[data.key[1]] ELSE <<>>, T)

\* OstiumAPI.processSSEMessage(message): JSON.parse and handlePriceUpdate inside one try
processSSEMessage(H, data, T) ==
    IF data.channel = "malformed" THEN [invoked |-> <<>>, escaped |-> FALSE]
    ELSE [invoked |-> handlePriceUpdate(H, data, T).invoked, escaped |-> FALSE]

\* no message has been handled
StreamConstructed ==
    lastMessage = [client |-> "none", channel |-> "none", key |-> <<>>, threw |-> {}, invoked |-> <<>>,
                   escaped |-> FALSE, failedBefore |-> FALSE]

(***************************************************************************)
(* OstiumDatafeed: real-time bars built from price ticks.                  *)
(***************************************************************************)
\* lastBars.get(key) of a key never stored
NoBar == [time |-> -1, open |-> 0, high |-> 0, low |-> 0, close |-> 0, volume |-> 0]

\* OstiumDatafeed.supportedResolutions
supportedResolutions ==
    {"1", "3", "5", "15", "30", "60", "120", "240", "360", "480", "720", "1D", "3D", "1W"}

\* OstiumDatafeed.getBarTime: resolutionMap
ResolutionMap ==
    ("1" :> 60000) @@ ("3" :> 180000) @@ ("5" :> 300000) @@ ("15" :> 900000) @@ ("30" :> 1800000) @@
    ("60" :> 3600000) @@ ("120" :> 7200000) @@ ("240" :> 14400000) @@ ("360" :> 21600000) @@
    ("480" :> 28800000) @@ ("720" :> 43200000) @@ ("1D" :> 86400000)

\* OstiumDatafeed.getBarTime(timestamp, resolution)
getBarTime(timestamp, resolution) ==
    LET resolutionMs == IF resolution \in DOMAIN ResolutionMap THEN ResolutionMap[resolution] ELSE 3600000
    IN  (timestamp \div resolutionMs) * resolutionMs

\* a handler that opens a new bar on every tick
TickBarAlwaysNew(lastBar, price, timestamp, resolution) ==
    [time |-> getBarTime(timestamp, resolution), open |-> price, high |-> price, low |-> price, close |-> price,
     volume |-> 0]

\* the handler of subscribeBars on a tick: the bar it stores under its key and emits
TickBar(lastBar, price, timestamp, resolution) ==
    LET barTime == getBarTime(timestamp, resolution)
    IN  IF lastBar = NoBar \/ barTime > lastBar.time
        THEN [time |-> barTime, open |-> price, high |-> price, low |-> price, close |-> price, volume |-> 0]
        ELSE [lastBar EXCEPT !.close = price,
                             !.high = IF @ >= price THEN @ ELSE price,
                             !.low = IF @ <= price THEN @ ELSE price]

\* handlePriceUpdate calling k handlers of one key in turn: the bars they emit
RECURSIVE TickBars(_, _, _, _, _)
TickBars(lastBar, k, price, timestamp, resolution) ==
    IF k = 0 THEN <<>>
    ELSE <<TickBar(lastBar, price, timestamp, resolution)>> \o
         TickBars(TickBar(lastBar, price, timestamp, resolution), k - 1, price, timestamp, resolution)

\* OstiumDatafeed as constructed: no bar stored, nothing emitted
TicksConstructed ==
    /\ lastBars = <<>>
    /\ lastEmitted = <<NoBar>>
    /\ lastTick = [n |-> 0, symbol |-> <<>>, price |-> 0, timestamp |-> 0, ordered |-> TRUE]
    /\ lastAligned = [called |-> FALSE, resolution |-> "none", t1 |-> 0, t2 |-> 0, barTime1 |-> 0, barTime2 |-> 0]

(***************************************************************************)
(* HyperLiquidAPI: the life of the WebSocket connection (LighterAPI has    *)
(* the same code).  this.ws is wsState["HYPERLIQUID"]; "CLOSED" is a       *)
(* socket that closed and is still named by this.ws.                       *)
(***************************************************************************)
MaxReconnectAttempts == 5

\* HyperLiquidAPI as constructed.  wsLog: calls, the number of connectWebSocket calls of
\* the application; deliberate, disconnectWebSocket or disconnect was called and the
\* application has not connected since; opened, who created a socket in the step just
\* taken ("none", "call", "timer"); inFlight, a socket was connecting when that socket
\* was created; autoSince, sockets created by reconnect timers since a socket last opened
WsConstructed ==
    /\ reconnectAttempts = 0
    /\ reconnectTimers = 0
    /\ pollers = 0
    /\ orphans = [connecting |-> 0, open |-> 0, closing |-> 0]
    /\ wsLog = [calls |-> 0, deliberate |-> FALSE, opened |-> "none", inFlight |-> FALSE, autoSince |-> 0]

\* HyperLiquidAPI.handleWebSocketClose
handleWebSocketClose ==
    IF reconnectAttempts < MaxReconnectAttempts
    THEN /\ reconnectAttempts' = reconnectAttempts + 1
         /\ reconnectTimers' = reconnectTimers + 1
    ELSE UNCHANGED <<reconnectAttempts, reconnectTimers>>

\* HyperLiquidAPI.connectWebSocket() called by the application ("call") or by a reconnect
\* timer ("timer"); log is wsLog before the call
connectWebSocket(by, timers, log) ==
    IF wsState["HYPERLIQUID"] = "OPEN"
    THEN /\ wsLog' = [log EXCEPT !.opened = "none"]
         /\ reconnectTimers' = timers
         /\ UNCHANGED <<wsState, isConnecting, pollers, orphans>>
    ELSE IF isConnecting["HYPERLIQUID"]
    THEN /\ pollers' = pollers + 1
         /\ wsLog' = [log EXCEPT !.opened = "none"]
         /\ reconnectTimers' = timers
         /\ UNCHANGED <<wsState, isConnecting, orphans>>
    ELSE /\ isConnecting' = [isConnecting EXCEPT !["HYPERLIQUID"] = TRUE]
         /\ wsState' = [wsState EXCEPT !["HYPERLIQUID"] = "CONNECTING"]
         /\ orphans' = IF wsState["HYPERLIQUID"] = "CONNECTING"
                       THEN [orphans EXCEPT !.connecting = @ + 1] ELSE orphans
         /\ wsLog' = [log EXCEPT !.opened = by,
                                 !.inFlight = wsState["HYPERLIQUID"] = "CONNECTING" \/ orphans.connecting > 0,
                                 !.autoSince = IF by = "timer" THEN @ + 1 ELSE @]
         /\ reconnectTimers' = timers
         /\ UNCHANGED pollers

\* OstiumAPI.maxReconnectAttempts
OstiumMaxReconnectAttempts == 1

\* OstiumAPI as constructed
SseConstructed ==
    /\ sseReconnectAttempts = 0
    /\ sseTimers = 0
    /\ sseOrphans = 0
    /\ sseAutoSince = 0

(***************************************************************************)
(* HyperLiquidAPI: the queue of rate-limited requests (LighterAPI and      *)
(* OstiumAPI have the same code).                                          *)
(***************************************************************************)
MinRequestInterval == 100

\* HyperLiquidAPI as constructed; some time has passed since the epoch
QueueConstructed ==
    /\ requestQueue = <<>>
    /\ isProcessingQueue = FALSE
    /\ lastRequestTime = 0
    /\ now = MinRequestInterval
    /\ processor = "idle"
    /\ dispatched = <<>>
    /\ inFlight = {}
    /\ lastCandles = [called |-> FALSE, startTime |-> 0, endTime |-> 0, outcome |-> "none"]
    /\ lastGetBars = [called |-> FALSE, fetch |-> "none", onHistory |-> 0, bars |-> "none",
                      noData |-> "none", onError |-> 0]

\* requestQueue.pop() in the place of shift(): the request taken and the queue left
popRequest(queue) == [request |-> queue[Len(queue)], rest |-> SubSeq(queue, 1, Len(queue) - 1)]

\* requestQueue.shift(): the request taken and the queue left
shiftRequest(queue) == [request |-> Head(queue), rest |-> Tail(queue)]

\* processRequestQueue after its wait: the next request is taken and passed to fetch at
\* time t; flying are the requests whose fetch has not settled
dispatchRequest(queue, t, flying) ==
    /\ requestQueue' = shiftRequest(queue).rest
    /\ dispatched' = Append(dispatched, shiftRequest(queue).request)
    /\ inFlight' = flying \cup {shiftRequest(queue).request}
    /\ lastRequestTime' = t
    /\ processor' = "fetching"
    /\ isProcessingQueue' = TRUE

\* processRequestQueue without its last statement: the flag stays set when the loop ends
processRequestQueueStaysBusy(queue, t, flying) ==
    IF queue = <<>>
    THEN /\ isProcessingQueue' = TRUE
         /\ processor' = "idle"
         /\ requestQueue' = queue
         /\ inFlight' = flying
         /\ UNCHANGED <<lastRequestTime, dispatched>>
    ELSE IF t - lastRequestTime < MinRequestInterval
    THEN /\ isProcessingQueue' = TRUE
         /\ processor' = "waiting"
         /\ requestQueue' = queue
         /\ inFlight' = flying
         /\ UNCHANGED <<lastRequestTime, dispatched>>
    ELSE dispatchRequest(queue, t, flying)

\* processRequestQueue at the test of its while loop, at time t, the queue being queue:
\* it ends, waits for the rest of the interval, or dispatches
processRequestQueue(queue, t, flying) ==
    IF queue = <<>>
    THEN /\ isProcessingQueue' = FALSE
         /\ processor' = "idle"
         /\ requestQueue' = queue
         /\ inFlight' = flying
         /\ UNCHANGED <<lastRequestTime, dispatched>>
    ELSE IF t - lastRequestTime < MinRequestInterval
    THEN /\ isProcessingQueue' = TRUE
         /\ processor' = "waiting"
         /\ requestQueue' = queue
         /\ inFlight' = flying
         /\ UNCHANGED <<lastRequestTime, dispatched>>
    ELSE dispatchRequest(queue, t, flying)

\* makeRateLimitedRequest with processRequestQueue() starting a loop next to the one that runs
makeRateLimitedRequestUnguarded(t) ==
    processRequestQueue(Append(requestQueue, Len(dispatched) + Len(requestQueue) + 1), t, inFlight)

\* makeRateLimitedRequest(url, body) at time t: the request is pushed and
\* processRequestQueue() is called, which returns at once when a loop is running
makeRateLimitedRequest(t) ==
    IF isProcessingQueue
    THEN /\ requestQueue' = Append(requestQueue, Len(dispatched) + Len(requestQueue) + 1)
         /\ UNCHANGED <<isProcessingQueue, lastRequestTime, processor, dispatched, inFlight>>
    ELSE processRequestQueue(Append(requestQueue, Len(dispatched) + Len(requestQueue) + 1), t, inFlight)

\* new Date('2020-01-01').getTime() / 1000: the timestamps of getCandles are
\* modelled in whole seconds (the code's milliseconds divided by 1000)
MinValidTime == 1577836800

\* getCandles(instrument, interval, startTime, endTime) of the client up to its call of
\* makeRateLimitedRequest: TRUE when no check throws.  All three clients throw on a
\* missing (zero) timestamp; OstiumAPI has no other check.
getCandlesValidates(client, startTime, endTime) ==
    IF startTime = 0 \/ endTime = 0
    THEN FALSE
    ELSE IF client = "OSTIUM"
    THEN TRUE
    ELSE IF startTime < MinValidTime \/ endTime < MinValidTime
    THEN FALSE
    ELSE ~(startTime >= endTime)

\* getBars(symbolInfo, resolution, periodParams, onHistoryCallback, onErrorCallback) of
\* the adapter, api.getCandles having thrown ("threw") or returned no candle ("empty")
\* or some ("candles"): the number of onHistoryCallback calls, the bars and the noData
\* flag passed, and the number of onErrorCallback calls.  HyperLiquidDatafeed passes
\* generated bars when there is no candle and when the fetch failed.
adapterGetBars(adapter, fetch) ==
    IF adapter = "HYPERLIQUID"
    THEN IF fetch = "candles"
         THEN [called |-> TRUE, fetch |-> fetch, onHistory |-> 1, bars |-> "candles", noData |-> "false", onError |-> 0]
         ELSE [called |-> TRUE, fetch |-> fetch, onHistory |-> 1, bars |-> "mock", noData |-> "false", onError |-> 0]
    ELSE IF fetch = "threw"
    THEN [called |-> TRUE, fetch |-> fetch, onHistory |-> 0, bars |-> "none", noData |-> "none", onError |-> 1]
    ELSE IF fetch = "empty"
    THEN [called |-> TRUE, fetch |-> fetch, onHistory |-> 1, bars |-> "empty", noData |-> "true", onError |-> 0]
    ELSE [called |-> TRUE, fetch |-> fetch, onHistory |-> 1, bars |-> "candles", noData |-> "false", onError |-> 0]

\* LighterDatafeed.getBars for a symbolInfo whose marketId is the market_id the markets
\* endpoint gave at initialize: a falsy id throws before the fetch, into the catch
lighterGetBars(marketId, fetch) ==
    IF marketId = 0
    THEN [called |-> TRUE, fetch |-> "none", onHistory |-> 0, bars |-> "none", noData |-> "none", onError |-> 1,
          marketId |-> marketId]
    ELSE [marketId |-> marketId] @@ adapterGetBars("LIGHTER", fetch)

LaterConstructed ==
    /\ TicksConstructed
    /\ WsConstructed
    /\ SseConstructed
    /\ lastUnsubscribe = [called |-> FALSE, found |-> FALSE, outcome |-> "returned", adapter |-> "none"]
    /\ QueueConstructed
    /\ queueOwner = "HYPERLIQUID"
    /\ StreamConstructed

(***************************************************************************)
(* TradingViewApp: the order-book panel.  The clients' state an operation  *)
(* works on is a record st: [subs, cache, ws, conn, tasks, streams,        *)
(* closing, active].                                                       *)
(***************************************************************************)
\* no tracked order-book subscription
NoSubscription == [set |-> FALSE, symbol |-> <<>>, exchange |-> "null", subscriptionKey |-> <<>>]

\* tokens of exactly three capital letters
ThreeLetterTokens == {"BTC", "ETH", "SOL", "SPX", "EUR"}

\* onSymbolChanged: a trailing USD is removed unless the name is three letters and USD
CleanSymbolName(name) ==
    IF /\ Len(name) > 0 /\ name[Len(name)] = "USD"
       /\ ~(Len(name) = 2 /\ name[1] \in ThreeLetterTokens)
    THEN StripUSD(name) ELSE name

\* TradingViewApp.stripExchangePrefix
stripExchangePrefix(symbol) == IF HasColon(symbol) THEN SplitSecond(symbol) ELSE symbol

\* LighterAPI.marketsBySymbol once the market LINK (market_id 1) is loaded
marketsBySymbol == (<<"LINK">> :> <<"1">>)

\* LighterAPI.getMarketIdForSymbol; <<>> is null
getMarketIdForSymbol(symbol) ==
    IF symbol \in DOMAIN marketsBySymbol THEN marketsBySymbol[symbol]
    ELSE IF StripUSD(symbol) \in DOMAIN marketsBySymbol THEN marketsBySymbol[StripUSD(symbol)]
    ELSE IF WithUSD(symbol) \in DOMAIN marketsBySymbol THEN marketsBySymbol[WithUSD(symbol)]
    ELSE <<>>

\* UnifiedDatafeed.getAPIForSymbol: the client of the symbol's exchange
getAPIForSymbol(m, symbol) == getExchangeForSymbol(m, symbol)

\* unsubscribeFromOrderBook(key) of client c
unsubscribeFromOrderBook(st, c, key) ==
    LET had == SubsHas(st.subs[c], <<key, "orderbook">>)
    IN  [st EXCEPT
           !.cache = IF c = "LIGHTER" THEN [k \in DOMAIN st.cache \ {key} |-> st.cache[k]] ELSE @,
           !.subs[c] = SubsDelete(@, <<key, "orderbook">>),
           !.closing[c] = IF had /\ st.ws[c] = "OPEN" /\ <<key, "orderbook">> \in st.streams[c]
                          THEN @ \cup {<<key, "orderbook">>} ELSE @]

\* disconnectWebSocket() of client c: the socket is closed and forgotten with its
\* handlers, every subscriber is cleared; isConnecting is left as it is, and a
\* call waiting for the open event of this socket waits for ever
disconnectWebSocket(st, c) ==
    [st EXCEPT
       !.ws[c] = "none",
       !.streams[c] = {},
       !.closing[c] = {},
       !.tasks = [i \in 1..Len(st.tasks) |->
                     IF st.tasks[i].client = c /\ st.tasks[i].wait = "onopen" /\ st.ws[c] = "CONNECTING"
                     THEN [st.tasks[i] EXCEPT !.wait = "never"] ELSE st.tasks[i]],
       !.subs[c] = <<>>]

\* TradingViewApp.cleanupOrderBook
cleanupOrderBook(m, st) ==
    IF ~st.active.set THEN st
    ELSE LET api == getAPIForSymbol(m, st.active.symbol)
             keyToUnsubscribe == IF st.active.subscriptionKey # <<>> THEN st.active.subscriptionKey
                                 ELSE st.active.symbol
             st1 == IF api \in WsClients
                    THEN disconnectWebSocket(unsubscribeFromOrderBook(st, api, keyToUnsubscribe), api)
                    ELSE st
         IN  [st1 EXCEPT !.active = NoSubscription]

\* subscribeToOrderBook after the await, and the rest of initOrderBook after its await:
\* symbol is this.currentSymbol at that moment
bookSubscribed(st, c, key, cb, symbol) ==
    [st EXCEPT
       !.subs[c] = RegisterOrderBook(@, key, cb),
       !.streams[c] = IF st.ws[c] = "OPEN" THEN @ \cup {<<key, "orderbook">>} ELSE @,
       !.closing[c] = @ \ {<<key, "orderbook">>},
       !.active = [set |-> TRUE, symbol |-> symbol, exchange |-> c, subscriptionKey |-> key]]

\* TradingViewApp.initOrderBook, call n, up to the first suspension: symbol is
\* this.currentSymbol when it is called, later is this.currentSymbol once the
\* calling handler has returned (when a resolved await lets the call go on)
initOrderBook(m, st, symbol, later, n) ==
    LET api      == getAPIForSymbol(m, symbol)
        exchange == getExchangeForSymbol(m, symbol)
        key      == IF exchange = "LIGHTER" THEN getMarketIdForSymbol(stripExchangePrefix(symbol))
                    ELSE stripExchangePrefix(symbol)
        wait     == IF st.ws[api] = "OPEN" THEN "now" ELSE IF st.conn[api] THEN "poll" ELSE "onopen"
        task     == [client |-> api, wait |-> wait, kind |-> "book", coin |-> key,
                     interval |-> "orderbook", cb |-> n]
    IN  IF st.active.set /\ st.active.symbol = symbol /\ st.active.exchange = exchange THEN st
        ELSE IF api \notin WsClients THEN st
        ELSE IF key = <<>> THEN st
        ELSE IF wait = "now" THEN bookSubscribed(st, api, key, n, later)
        ELSE [st EXCEPT
                !.tasks = Append(@, task),
                !.conn[api] = TRUE,
                !.ws[api] = IF wait = "onopen" THEN "CONNECTING" ELSE @]

\* TradingViewApp.updateOrderBookVisibility(exchange) with the panel in the page
updateOrderBookVisibility(m, st, exchange, symbol, later, n) ==
    IF exchange = "OSTIUM" THEN cleanupOrderBook(m, st)
    ELSE IF exchange \in WsClients THEN initOrderBook(m, cleanupOrderBook(m, st), symbol, later, n)
    ELSE st

(***************************************************************************)
(* Symbol resolution.  A symbolInfo object is [adapter, name]: the adapter *)
(* whose symbols Map holds it and the key it is stored under (its name).   *)
(* NoSymbolInfo stands for the error callback.                             *)
(***************************************************************************)
NoSymbolInfo == [adapter |-> "none", name |-> <<>>]

\* HyperLiquidDatafeed.resolveSymbol: the key looked up, symbolName.split(':').pop().replace('USD', '')
HyperLiquidResolveKey(symbolName) ==
    LET last == IF ~HasColon(symbolName) THEN 0
                ELSE CHOOSE i \in 1..Len(symbolName) :
                        symbolName[i] = ":" /\ \A j \in (i + 1)..Len(symbolName) : symbolName[j] # ":"
    IN  RemoveFirst(SubSeq(symbolName, last + 1, Len(symbolName)), "USD")

\* LighterDatafeed.resolveSymbol: the object found for the name, in the order tried
LighterResolve(keys, symbolName) ==
    LET symbol == IF HasColon(symbolName) THEN SplitSecond(symbolName) ELSE symbolName
        endsUSD == Len(symbol) > 0 /\ symbol[Len(symbol)] = "USD"
    IN  IF Contains(keys, symbol) THEN [adapter |-> "LIGHTER", name |-> symbol]
        ELSE IF ~endsUSD /\ Contains(keys, WithUSD(symbol))
             THEN [adapter |-> "LIGHTER", name |-> WithUSD(symbol)]
        ELSE IF endsUSD /\ Contains(keys, StripUSD(symbol))
             THEN [adapter |-> "LIGHTER", name |-> StripUSD(symbol)]
        ELSE NoSymbolInfo

\* OstiumDatafeed.resolveSymbol
OstiumResolve(keys, symbolName) ==
    LET symbol == CleanSymbolName(IF HasColon(symbolName) THEN SplitSecond(symbolName) ELSE symbolName)
    IN  IF Contains(keys, symbol) THEN [adapter |-> "OSTIUM", name |-> symbol] ELSE NoSymbolInfo

\* variant of the adapter choice of getBars / subscribeBars that routes the name again
exchangeOfSymbolInfoRerouted(R, m, symbolInfo) == getExchangeForSymbol(m, symbolInfo.name)

\* getBars / subscribeBars: resolvedSymbolExchange.get(symbolInfo) || getExchangeForSymbol(symbolInfo.name)
exchangeOfSymbolInfo(R, m, symbolInfo) ==
    IF symbolInfo \in DOMAIN R THEN R[symbolInfo] ELSE getExchangeForSymbol(m, symbolInfo.name)

(***************************************************************************)
(* The state after construction.                                           *)
(***************************************************************************)
\* the UnifiedDatafeed and its adapters as constructed
RouteConstructed ==
    /\ symbols = [e \in ExchangeNames |-> <<>>]
    /\ symbolExchangeMap = <<>>
    /\ isInitialized = FALSE
    /\ initialized = {}
    /\ lastRoute = [called |-> FALSE, name |-> <<>>, result |-> "HYPERLIQUID"]

\* the WebSocket clients as constructed
BookConstructed ==
    /\ subscribers = [c \in WsClients |-> <<>>]
    /\ orderBookCache = <<>>
    /\ lastBook = [type |-> "none", outcome |-> "none", invoked |-> <<>>, levels |-> <<>>]
    /\ wsState = [c \in WsClients |-> "none"]
    /\ isConnecting = [c \in WsClients |-> FALSE]
    /\ tasks = <<>>
    /\ streams = [c \in WsClients |-> {}]
    /\ closing = [c \in WsClients |-> {}]

\* the adapters and the OstiumAPI as constructed, nothing subscribed
BarsConstructed ==
    /\ activeSubscriptions = <<>>
    /\ barSubs = [e \in ExchangeNames |-> <<>>]
    /\ ostiumHandlers = <<>>
    /\ sse = "idle"
    /\ calls = 0
    /\ everUnder = [u \in {} |-> {}]
    /\ retired = {}
    /\ replaced = {}
    /\ invokedNow = {}

\* the TradingViewApp as constructed
AppConstructed ==
    /\ chartReady = FALSE
    /\ currentSymbol = <<"BTC">>
    /\ currentExchange = "null"
    /\ activeOrderBookSubscription = NoSubscription
    /\ inits = 0
    /\ lastSwitch = [set |-> FALSE, from |-> <<>>, to |-> <<>>, fromExchange |-> "null",
                     toExchange |-> "null", init |-> 0]
    /\ bookInvoked = {}

\* nothing resolved, no bars requested
ResolveConstructed ==
    /\ resolvedSymbolExchange = <<>>
    /\ resolving = {}
    /\ resolves = 0
    /\ lastRequestedSymbol = <<>>
    /\ lastDelegate = [called |-> FALSE, op |-> "none", symbolInfo |-> NoSymbolInfo, exchange |-> "none"]
    /\ lastResolve = [called |-> FALSE, ticker |-> <<>>, symbolName |-> <<>>, symbolInfo |-> NoSymbolInfo]

\* the state after UnifiedDatafeed.initialize() when Lighter lists the market LINK
RouteReady ==
    /\ symbols = [e \in ExchangeNames |->
                    IF e = "HYPERLIQUID" THEN HyperLiquidDefaultSymbols
                    ELSE IF e = "OSTIUM" THEN OstiumDefaultSymbols
                    ELSE << <<"LINK">> >>]
    /\ symbolExchangeMap = buildSymbolMap(<<>>, symbols)
    /\ isInitialized = TRUE
    /\ initialized = ExchangeNames
    /\ lastRoute = [called |-> FALSE, name |-> <<>>, result |-> "HYPERLIQUID"]

(***************************************************************************)
(* Routing: state machine.                                                 *)
(***************************************************************************)
HyperLiquidInitialize ==
    /\ "HYPERLIQUID" \notin initialized
    /\ symbols' = [symbols EXCEPT !["HYPERLIQUID"] = CollectKeys(@, HyperLiquidDefaultSymbols)]
    /\ initialized' = initialized \cup {"HYPERLIQUID"}
    /\ UNCHANGED <<laterVars, symbolExchangeMap, isInitialized, lastRoute, bookVars, connVars, barVars,
                   appVars, resolveVars>>

OstiumInitialize ==
    /\ "OSTIUM" \notin initialized
    /\ symbols' = [symbols EXCEPT !["OSTIUM"] = CollectKeys(@, OstiumDefaultSymbols)]
    /\ initialized' = initialized \cup {"OSTIUM"}
    /\ UNCHANGED <<laterVars, symbolExchangeMap, isInitialized, lastRoute, bookVars, connVars, barVars,
                   appVars, resolveVars>>

LighterInitialize ==
    /\ "LIGHTER" \notin initialized
    /\ \E markets \in UNION {[1..k -> LighterRawSymbols] : k \in 0..MaxLighterMarkets} :
          symbols' = [symbols EXCEPT !["LIGHTER"] = LighterRegister(@, markets)]
    /\ initialized' = initialized \cup {"LIGHTER"}
    /\ UNCHANGED <<laterVars, symbolExchangeMap, isInitialized, lastRoute, bookVars, connVars, barVars,
                   appVars, resolveVars>>

\* UnifiedDatafeed.initialize after Promise.all resolved
UnifiedInitialize ==
    /\ initialized = ExchangeNames
    /\ ~isInitialized
    /\ symbolExchangeMap' = buildSymbolMap(symbolExchangeMap, symbols)
    /\ isInitialized' = TRUE
    /\ UNCHANGED <<laterVars, symbols, initialized, lastRoute, bookVars, connVars, barVars, appVars,
                   resolveVars>>

\* names getExchangeForSymbol is asked for: optional prefix, ticker, trailing USDs
QueryNames ==
    { p \o b \o u :
        p \in { <<>>, <<"HYPERLIQUID", ":">>, <<"OSTIUM", ":">>, <<"LIGHTER", ":">>, <<"BINANCE", ":">> },
        b \in { <<"BTC">>, <<"LINK">>, <<"EUR">>, <<"SPX">>, <<"DOGE">> },
        u \in UNION {[1..n -> {"USD"}] : n \in 0..MaxUsdSuffix} }

RouteQuery ==
    /\ isInitialized
    /\ \E name \in QueryNames :
          lastRoute' = [called |-> TRUE, name |-> name,
                        result |-> getExchangeForSymbol(symbolExchangeMap, name)]
    /\ UNCHANGED <<laterVars, symbols, symbolExchangeMap, isInitialized, initialized, bookVars, connVars,
                   barVars, appVars, resolveVars>>

RouteNext ==
    \/ HyperLiquidInitialize
    \/ OstiumInitialize
    \/ LighterInitialize
    \/ UnifiedInitialize
    \/ RouteQuery

RouteInit == RouteConstructed /\ BookConstructed /\ BarsConstructed /\ AppConstructed /\ ResolveConstructed /\ LaterConstructed

RouteSpec == RouteInit /\ [][RouteNext]_vars

(***************************************************************************)
(* Routing: properties.                                                    *)
(***************************************************************************)
\* C9: once the symbol map is built, every ticker t registered by exactly one
\* adapter is routed to that adapter's exchange, both as t and as t + "USD".
C9_UniqueTickerRouted ==
    isInitialized =>
        \A e \in ExchangeNames : \A t \in Range(symbols[e]) :
            {x \in ExchangeNames : Contains(symbols[x], t)} = {e} =>
                /\ getExchangeForSymbol(symbolExchangeMap, t) = e
                /\ getExchangeForSymbol(symbolExchangeMap, WithUSD(t)) = e

C11_AmbiguousTickerDefaults ==
    isInitialized =>
        \A t \in UNION {Range(symbols[e]) : e \in ExchangeNames} :
            ( /\ Cardinality({e \in ExchangeNames : Contains(symbols[e], t)}) >= 2
              /\ ~Contains(rwaSymbols, t) )
            => getExchangeForSymbol(symbolExchangeMap, t) = "HYPERLIQUID"

\* BTC is claimed by HyperLiquid and Lighter, Lighter also lists BTCUSD, and
\* the unprefixed BTC has just been routed
C11_AmbiguousRouted ==
    /\ isInitialized
    /\ Contains(symbols["HYPERLIQUID"], <<"BTC">>)
    /\ Contains(symbols["LIGHTER"], <<"BTC">>)
    /\ Contains(symbols["LIGHTER"], <<"BTC", "USD">>)
    /\ lastRoute.called
    /\ lastRoute.name = <<"BTC">>
    /\ lastRoute.result = "HYPERLIQUID"

(***************************************************************************)
(* Order book: state machine.  The Lighter socket is open; messages of any *)
(* market may arrive at any time.                                          *)
(***************************************************************************)
BookMarkets == { <<"1">> }

BookCallbacks == {"ob1", "ob2"}

\* the levels a delta may carry (a zero size asks for removal)
BidUpdates == [px : {"100", "100.0", "101"}, sz : {"0", "5"}]

AskUpdates == [px : {"101"}, sz : {"0", "3", "4"}] \cup {[px |-> "102", sz |-> "4"]}

\* sequences of at most n levels
LevelLists(levels, n) == UNION {[1..k -> levels] : k \in 0..n}

\* a snapshot lists every price once, with a non-zero size, in any order
SnapshotLists(levels, n) ==
    {l \in LevelLists({u \in levels : parseFloat[u.sz] # 0}, n) :
        \A i, j \in 1..Len(l) : i # j => l[i].px # l[j].px}

BookMessages ==
    [type : {"subscribed/order_book"}, market : BookMarkets,
     bids : SnapshotLists(BidUpdates, MaxBidLevels), asks : SnapshotLists(AskUpdates, MaxAskLevels)]
    \cup
    [type : {"update/order_book"}, market : BookMarkets,
     bids : LevelLists(BidUpdates, MaxBidLevels), asks : LevelLists(AskUpdates, MaxAskLevels)]
    \cup
    [type : {"other"}, market : BookMarkets, bids : {<<>>}, asks : {<<>>}]

\* LighterAPI.subscribeToOrderBook(market, cb) on the open socket
BookSubscribe ==
    /\ \E m \in BookMarkets, cb \in BookCallbacks :
          subscribers' = [subscribers EXCEPT !["LIGHTER"] = RegisterOrderBook(@, m, cb)]
    /\ UNCHANGED <<laterVars, orderBookCache, lastBook, routeVars, connVars, barVars, appVars, resolveVars>>

\* LighterAPI.unsubscribeFromOrderBook(market)
BookUnsubscribe ==
    /\ \E m \in BookMarkets :
          /\ orderBookCache' = [k \in DOMAIN orderBookCache \ {m} |-> orderBookCache[k]]
          /\ subscribers' = [subscribers EXCEPT !["LIGHTER"] = SubsDelete(@, <<m, "orderbook">>)]
    /\ UNCHANGED <<laterVars, lastBook, routeVars, connVars, barVars, appVars, resolveVars>>

\* ws.onmessage with an order-book message
BookMessage ==
    /\ \E msg \in BookMessages :
          LET r == handleOrderBook(subscribers["LIGHTER"], orderBookCache, msg)
          IN  /\ orderBookCache' = r.cache
              /\ lastBook' = [type |-> msg.type, outcome |-> r.outcome,
                              invoked |-> r.invoked, levels |-> r.levels]
    /\ UNCHANGED <<laterVars, subscribers, routeVars, connVars, barVars, appVars, resolveVars>>

BookNext ==
    \/ BookSubscribe
    \/ BookUnsubscribe
    \/ BookMessage

BookInit == RouteConstructed /\ BookConstructed /\ BarsConstructed /\ AppConstructed /\ ResolveConstructed /\ LaterConstructed

BookSpec == BookInit /\ [][BookNext]_vars

(***************************************************************************)
(* Order book with disconnectWebSocket: the same client, its messages      *)
(* carrying at most one level a side.                                      *)
(***************************************************************************)
\* LighterAPI.disconnectWebSocket(): the socket is dropped and every subscriber
\* cleared; nothing is done to orderBookCache
BookDisconnect ==
    /\ subscribers' = [subscribers EXCEPT !["LIGHTER"] = <<>>]
    /\ UNCHANGED <<laterVars, orderBookCache, lastBook, routeVars, connVars, barVars, appVars, resolveVars>>

\* ws.onmessage with an order-book message of at most one bid and one ask
BookShortMessage ==
    /\ \E msg \in { x \in BookMessages : Len(x.bids) <= 1 /\ Len(x.asks) <= 1 } :
          LET r == handleOrderBook(subscribers["LIGHTER"], orderBookCache, msg)
          IN  /\ orderBookCache' = r.cache
              /\ lastBook' = [type |-> msg.type, outcome |-> r.outcome,
                              invoked |-> r.invoked, levels |-> r.levels]
    /\ UNCHANGED <<laterVars, subscribers, routeVars, connVars, barVars, appVars, resolveVars>>

\* HyperLiquidAPI.subscribeToOrderBook(coin, cb) on the open socket
L2BookSubscribe ==
    /\ \E cb \in BookCallbacks :
          subscribers' = [subscribers EXCEPT !["HYPERLIQUID"] = RegisterOrderBook(@, <<"BTC">>, cb)]
    /\ UNCHANGED <<laterVars, orderBookCache, lastBook, routeVars, connVars, barVars, appVars, resolveVars>>

\* HyperLiquidAPI.unsubscribeFromOrderBook(coin)
L2BookUnsubscribe ==
    /\ subscribers' = [subscribers EXCEPT !["HYPERLIQUID"] = SubsDelete(@, << <<"BTC">>, "orderbook">>)]
    /\ UNCHANGED <<laterVars, orderBookCache, lastBook, routeVars, connVars, barVars, appVars, resolveVars>>

\* ws.onmessage of the HyperLiquid socket with an l2Book message
L2BookMessage ==
    /\ LET r == handleL2Book(subscribers["HYPERLIQUID"], <<"BTC">>)
       IN  lastBook' = [type |-> "l2Book", outcome |-> r.outcome, invoked |-> r.invoked, levels |-> <<>>]
    /\ UNCHANGED <<laterVars, subscribers, orderBookCache, routeVars, connVars, barVars, appVars, resolveVars>>

BookLifeNext ==
    \/ BookSubscribe
    \/ BookUnsubscribe
    \/ BookDisconnect
    \/ BookShortMessage
    \/ L2BookSubscribe
    \/ L2BookUnsubscribe
    \/ L2BookMessage

BookLifeSpec == BookInit /\ [][BookLifeNext]_vars

(***************************************************************************)
(* Order book: properties.                                                 *)
(***************************************************************************)
\* C5: while a market has a registered callback and no cached snapshot, every
\* delta for it is dropped: the handler returns on the no-cache path (it raises
\* nothing), invokes no callback and leaves the cache without an entry.
C5_DeltaWithoutSnapshotDropped ==
    \A m \in BookMarkets :
        (SubsGet(subscribers["LIGHTER"], <<m, "orderbook">>) # <<>> /\ m \notin DOMAIN orderBookCache) =>
            \A msg \in BookMessages :
                (msg.type = "update/order_book" /\ msg.market = m) =>
                    LET r == handleOrderBook(subscribers["LIGHTER"], orderBookCache, msg)
                    IN  /\ r.outcome = "dropped"
                        /\ r.invoked = <<>>
                        /\ r.cache = orderBookCache
                        /\ m \notin DOMAIN r.cache

\* a delta has just been dropped for a market with a callback and no cached book
C5_DeltaDropped ==
    /\ lastBook.type = "update/order_book"
    /\ lastBook.outcome = "dropped"
    /\ SubsGet(subscribers["LIGHTER"], << <<"1">>, "orderbook">>) # <<>>
    /\ <<"1">> \notin DOMAIN orderBookCache

\* C6: for a market with a cached book and a registered callback, a delta leaves
\* on each side exactly the levels of the reference result (per delta entry in
\* order: zero size removes the price, another size replaces or inserts it,
\* other prices keep their size), and publishes them; the delta of the example
\* publishes bids [] and asks [(101,4)]; zero sizes for all levels empty the book.
C6_DeltaMatchesReference ==
    LET AsMap(levels) ==
            [p \in {levels[i].px : i \in 1..Len(levels)} |->
                levels[CHOOSE i \in 1..Len(levels) : levels[i].px = p].sz]
        Reference(levels, updates) ==
            LET R[k \in 0..Len(updates)] ==
                    IF k = 0 THEN AsMap(levels)
                    ELSE IF updates[k].sz = "0"
                         THEN [p \in DOMAIN R[k - 1] \ {updates[k].px} |-> R[k - 1][p]]
                         ELSE (updates[k].px :> updates[k].sz) @@ R[k - 1]
            IN  R[Len(updates)]
        OnePerPrice(levels) == \A i, j \in 1..Len(levels) : i # j => levels[i].px # levels[j].px
        Zeroed(levels) == [i \in 1..Len(levels) |-> [px |-> levels[i].px, sz |-> "0"]]
        S1   == RegisterOrderBook(<<>>, <<"1">>, "ob1")
        snap == [type |-> "subscribed/order_book", market |-> <<"1">>,
                 bids |-> <<[px |-> "100", sz |-> "5"]>>, asks |-> <<[px |-> "101", sz |-> "3"]>>]
        dlt  == [type |-> "update/order_book", market |-> <<"1">>,
                 bids |-> <<[px |-> "100", sz |-> "0"]>>, asks |-> <<[px |-> "101", sz |-> "4"]>>]
    IN  /\ handleOrderBook(S1, handleOrderBook(S1, <<>>, snap).cache, dlt).levels
               = << <<>>, <<[px |-> "101", sz |-> "4"]>> >>
        /\ \A m \in DOMAIN orderBookCache :
              SubsGet(subscribers["LIGHTER"], <<m, "orderbook">>) # <<>> =>
                  LET book == orderBookCache[m]
                      zero == handleOrderBook(subscribers["LIGHTER"], orderBookCache,
                                  [type |-> "update/order_book", market |-> m,
                                   bids |-> Zeroed(book.bids), asks |-> Zeroed(book.asks)])
                  IN  /\ zero.levels = << <<>>, <<>> >>
                      /\ zero.cache[m] = [bids |-> <<>>, asks |-> <<>>]
                      /\ \A msg \in BookMessages :
                            (msg.type = "update/order_book" /\ msg.market = m) =>
                                LET r == handleOrderBook(subscribers["LIGHTER"], orderBookCache, msg)
                                IN  /\ r.outcome = "published"
                                    /\ r.levels = <<r.cache[m].bids, r.cache[m].asks>>
                                    /\ OnePerPrice(r.cache[m].bids) /\ OnePerPrice(r.cache[m].asks)
                                    /\ AsMap(r.cache[m].bids) = Reference(book.bids, msg.bids)
                                    /\ AsMap(r.cache[m].asks) = Reference(book.asks, msg.asks)

\* the delta of the example has just been applied to a cached book and published
C6_ExamplePublished ==
    /\ lastBook.type = "update/order_book"
    /\ lastBook.outcome = "published"
    /\ lastBook.invoked # <<>>
    /\ lastBook.levels = << <<>>, <<[px |-> "101", sz |-> "4"]>> >>
    /\ orderBookCache[<<"1">>] = [bids |-> <<>>, asks |-> <<[px |-> "101", sz |-> "4"]>>]

\* C7: for a market with a cached book and a registered callback, delivering a
\* delta a second time leaves the cached book and the published book as they
\* were after the first delivery.
C7_DeltaIdempotent ==
    \A m \in DOMAIN orderBookCache :
        SubsGet(subscribers["LIGHTER"], <<m, "orderbook">>) # <<>> =>
            \A msg \in BookMessages :
                (msg.type = "update/order_book" /\ msg.market = m) =>
                    LET once  == handleOrderBook(subscribers["LIGHTER"], orderBookCache, msg)
                        twice == handleOrderBook(subscribers["LIGHTER"], once.cache, msg)
                    IN  /\ twice.cache = once.cache
                        /\ twice.levels = once.levels

\* C8: every published order book has its bids in descending and its asks in
\* ascending price order, after a snapshot as well as after a delta.
C8_PublishedSorted ==
    lastBook.outcome = "published" =>
        /\ \A i, j \in 1..Len(lastBook.levels[1]) :
              i < j => parseFloat[lastBook.levels[1][i].px] >= parseFloat[lastBook.levels[1][j].px]
        /\ \A i, j \in 1..Len(lastBook.levels[2]) :
              i < j => parseFloat[lastBook.levels[2][i].px] <= parseFloat[lastBook.levels[2][j].px]

(***************************************************************************)
(* Real-time bars: state machine.  The chart subscribes and unsubscribes   *)
(* through UnifiedDatafeed; sockets open, candles and ticks arrive.        *)
(***************************************************************************)
BarIds == {"id1", "id2"}

\* the symbolInfo objects the chart holds: BTC and ETH of HyperLiquid, SPX of Ostium, LINK of Lighter
BarSymbols ==
    { [adapter |-> "HYPERLIQUID", name |-> <<"BTC">>], [adapter |-> "HYPERLIQUID", name |-> <<"ETH">>],
      [adapter |-> "OSTIUM", name |-> <<"SPX">>], [adapter |-> "LIGHTER", name |-> <<"LINK">>] }

BarResolution == "1"

\* HyperLiquidDatafeed.subscribeBars(symbolInfo, resolution, n, uid)
HyperLiquidSubscribeBars(uid, symbol, n) ==
    LET interval == convertInterval(BarResolution)
        task     == [client |-> "HYPERLIQUID", wait |-> ConnectWait("HYPERLIQUID"), kind |-> "candles",
                     coin |-> symbol, interval |-> interval, cb |-> n]
    IN  /\ barSubs' = [barSubs EXCEPT !["HYPERLIQUID"] = MapSet(@, uid, [symbol |-> symbol, cb |-> n])]
        /\ IF task.wait = "now"
           THEN /\ subscribers' = [subscribers EXCEPT !["HYPERLIQUID"] = RegisterCandles(@, symbol, interval, n)]
                /\ streams' = [streams EXCEPT !["HYPERLIQUID"] = @ \cup {<<symbol, interval>>}]
                /\ closing' = [closing EXCEPT !["HYPERLIQUID"] = @ \ {<<symbol, interval>>}]
                /\ UNCHANGED <<wsState, isConnecting, tasks>>
           ELSE /\ tasks' = Append(tasks, task)
                /\ wsState' = [wsState EXCEPT !["HYPERLIQUID"] = IF task.wait = "onopen" THEN "CONNECTING" ELSE @]
                /\ isConnecting' = [isConnecting EXCEPT !["HYPERLIQUID"] = TRUE]
                /\ UNCHANGED <<subscribers, streams, closing>>
        /\ UNCHANGED <<ostiumHandlers, sse, sseOrphans>>

\* OstiumDatafeed.subscribeBars(symbolInfo, resolution, n, uid)
OstiumSubscribeBars(uid, symbol, n) ==
    /\ sse' = IF DOMAIN barSubs["OSTIUM"] = {} /\ sse # "connecting" THEN "connecting" ELSE sse
    /\ sseOrphans' = IF DOMAIN barSubs["OSTIUM"] = {} /\ sse = "open" THEN sseOrphans + 1 ELSE sseOrphans
    /\ barSubs' = [barSubs EXCEPT !["OSTIUM"] = MapSet(@, uid, [symbol |-> symbol, cb |-> n])]
    /\ ostiumHandlers' = OstiumSubscribe(ostiumHandlers, symbol, n)
    /\ UNCHANGED <<subscribers, connVars>>

\* LighterDatafeed.subscribeBars(symbolInfo, resolution, n, uid)
LighterSubscribeBars(uid, symbol, n) ==
    /\ barSubs' = [barSubs EXCEPT !["LIGHTER"] = MapSet(@, uid, [symbol |-> symbol, cb |-> n])]
    /\ UNCHANGED <<subscribers, connVars, ostiumHandlers, sse, sseOrphans>>

\* UnifiedDatafeed.subscribeBars(symbolInfo, resolution, n, uid) for an object resolveSymbol delivered
BarSubscribe ==
    /\ calls < MaxBarCalls
    /\ \E uid \in BarIds, symbolInfo \in DOMAIN resolvedSymbolExchange :
          LET n        == calls + 1
              symbol   == symbolInfo.name
              exchange == exchangeOfSymbolInfo(resolvedSymbolExchange, symbolExchangeMap, symbolInfo)
              again    == /\ uid \in DOMAIN activeSubscriptions
                          /\ activeSubscriptions[uid] = exchange
                          /\ uid \in DOMAIN barSubs[exchange]
                          /\ barSubs[exchange][uid].symbol = symbol
          IN  /\ calls' = n
              /\ activeSubscriptions' = MapSet(activeSubscriptions, uid, exchange)
              /\ everUnder' = MapSet(everUnder, uid,
                                     (IF uid \in DOMAIN everUnder THEN everUnder[uid] ELSE {}) \cup {n})
              /\ replaced' = replaced \cup (IF again THEN {barSubs[exchange][uid].cb} ELSE {})
              /\ lastDelegate' = [called |-> TRUE, op |-> "subscribeBars", symbolInfo |-> symbolInfo,
                                  exchange |-> exchange]
              /\ IF exchange = "HYPERLIQUID" THEN HyperLiquidSubscribeBars(uid, symbol, n)
                 ELSE IF exchange = "OSTIUM" THEN OstiumSubscribeBars(uid, symbol, n)
                 ELSE LighterSubscribeBars(uid, symbol, n)
    /\ invokedNow' = {}
    /\ UNCHANGED <<tickVars, lifeVars, sseReconnectAttempts, sseTimers, sseAutoSince, lastUnsubscribe, queueVars, lastMessage,
                   retired, orderBookCache, lastBook, routeVars, appVars, lastResolve, resolvedSymbolExchange,
                   resolving, resolves, lastRequestedSymbol>>

\* HyperLiquidDatafeed.unsubscribeBars(uid)
HyperLiquidUnsubscribeBars(uid) ==
    LET has == uid \in DOMAIN barSubs["HYPERLIQUID"]
        key == <<barSubs["HYPERLIQUID"][uid].symbol, convertInterval(BarResolution)>>
        S2  == UnregisterCandles(subscribers["HYPERLIQUID"], key[1], key[2], barSubs["HYPERLIQUID"][uid].cb)
        sent == /\ SubsHas(subscribers["HYPERLIQUID"], key) /\ ~SubsHas(S2, key)
                /\ wsState["HYPERLIQUID"] = "OPEN" /\ key \in streams["HYPERLIQUID"]
    IN  /\ subscribers' = IF has THEN [subscribers EXCEPT !["HYPERLIQUID"] = S2] ELSE subscribers
        /\ closing' = IF has /\ sent THEN [closing EXCEPT !["HYPERLIQUID"] = @ \cup {key}] ELSE closing
        /\ barSubs' = [barSubs EXCEPT !["HYPERLIQUID"] = MapDelete(@, uid)]
        /\ UNCHANGED <<wsState, isConnecting, tasks, streams, ostiumHandlers, sse>>

\* OstiumDatafeed.unsubscribeBars(uid)
OstiumUnsubscribeBars(uid) ==
    IF uid \in DOMAIN barSubs["OSTIUM"]
    THEN /\ ostiumHandlers' = OstiumUnsubscribe(ostiumHandlers, barSubs["OSTIUM"][uid].symbol,
                                                barSubs["OSTIUM"][uid].cb)
         /\ barSubs' = [barSubs EXCEPT !["OSTIUM"] = MapDelete(@, uid)]
         /\ sse' = IF DOMAIN barSubs["OSTIUM"] = {uid} THEN "idle" ELSE sse
         /\ UNCHANGED <<subscribers, connVars>>
    ELSE UNCHANGED <<ostiumHandlers, barSubs, sse, subscribers, connVars>>

\* UnifiedDatafeed.unsubscribeBars(uid) without the test of the record: reading the
\* fields of a missing record throws
UnifiedUnsubscribeBarsUnguarded(uid) ==
    IF uid \in DOMAIN activeSubscriptions
    THEN /\ activeSubscriptions' = MapDelete(activeSubscriptions, uid)
         /\ lastUnsubscribe' = [called |-> TRUE, found |-> TRUE, outcome |-> "returned",
                                adapter |-> activeSubscriptions[uid]]
         /\ IF activeSubscriptions[uid] = "HYPERLIQUID" THEN HyperLiquidUnsubscribeBars(uid)
            ELSE IF activeSubscriptions[uid] = "OSTIUM" THEN OstiumUnsubscribeBars(uid)
            ELSE /\ barSubs' = [barSubs EXCEPT !["LIGHTER"] = MapDelete(@, uid)]
                 /\ UNCHANGED <<subscribers, connVars, ostiumHandlers, sse>>
    ELSE /\ lastUnsubscribe' = [called |-> TRUE, found |-> FALSE, outcome |-> "thrown", adapter |-> "none"]
         /\ UNCHANGED <<activeSubscriptions, barSubs, subscribers, connVars, ostiumHandlers, sse>>

\* UnifiedDatafeed.unsubscribeBars(uid): the adapter of the record is called and the
\* record deleted; without a record the call logs and returns
UnifiedUnsubscribeBars(uid) ==
    IF uid \in DOMAIN activeSubscriptions
    THEN /\ activeSubscriptions' = MapDelete(activeSubscriptions, uid)
         /\ lastUnsubscribe' = [called |-> TRUE, found |-> TRUE, outcome |-> "returned",
                                adapter |-> activeSubscriptions[uid]]
         /\ IF activeSubscriptions[uid] = "HYPERLIQUID" THEN HyperLiquidUnsubscribeBars(uid)
            ELSE IF activeSubscriptions[uid] = "OSTIUM" THEN OstiumUnsubscribeBars(uid)
            ELSE /\ barSubs' = [barSubs EXCEPT !["LIGHTER"] = MapDelete(@, uid)]
                 /\ UNCHANGED <<subscribers, connVars, ostiumHandlers, sse>>
    ELSE /\ lastUnsubscribe' = [called |-> TRUE, found |-> FALSE, outcome |-> "returned", adapter |-> "none"]
         /\ UNCHANGED <<activeSubscriptions, barSubs, subscribers, connVars, ostiumHandlers, sse>>

\* the chart calls unsubscribeBars(uid)
BarUnsubscribe ==
    /\ \E uid \in BarIds :
          /\ retired' = retired \cup (IF uid \in DOMAIN everUnder THEN everUnder[uid] ELSE {})
          /\ UnifiedUnsubscribeBars(uid)
    /\ invokedNow' = {}
    /\ UNCHANGED <<tickVars, lifeVars, sseVars, queueVars, lastMessage, calls, everUnder, replaced, orderBookCache, lastBook,
                   routeVars, appVars, resolveVars>>

\* the rest of subscribeToCandles for a suspended call: register, send the subscription
ResumeCandles(task) ==
    /\ subscribers' = [subscribers EXCEPT ![task.client] =
                          RegisterCandles(@, task.coin, task.interval, task.cb)]
    /\ streams' = [streams EXCEPT ![task.client] = @ \cup {<<task.coin, task.interval>>}]
    /\ closing' = [closing EXCEPT ![task.client] = @ \ {<<task.coin, task.interval>>}]

\* ws.onopen of the HyperLiquid socket: the call that created the socket resumes
CandlesSocketOpened ==
    /\ wsState["HYPERLIQUID"] = "CONNECTING"
    /\ wsState' = [wsState EXCEPT !["HYPERLIQUID"] = "OPEN"]
    /\ isConnecting' = [isConnecting EXCEPT !["HYPERLIQUID"] = FALSE]
    /\ \E i \in 1..Len(tasks) :
          /\ tasks[i].wait = "onopen"
          /\ tasks' = SubSeq(tasks, 1, i - 1) \o SubSeq(tasks, i + 1, Len(tasks))
          /\ ResumeCandles(tasks[i])
    /\ invokedNow' = {}
    /\ UNCHANGED <<laterVars, activeSubscriptions, barSubs, ostiumHandlers, sse, calls, everUnder, retired,
                   replaced, orderBookCache, lastBook, routeVars, appVars, resolveVars>>

\* a checkConnection timer of a call that found a connection in progress sees the socket open
CandlesPollResumed ==
    /\ wsState["HYPERLIQUID"] = "OPEN"
    /\ \E i \in 1..Len(tasks) :
          /\ tasks[i].wait = "poll"
          /\ tasks' = SubSeq(tasks, 1, i - 1) \o SubSeq(tasks, i + 1, Len(tasks))
          /\ ResumeCandles(tasks[i])
    /\ invokedNow' = {}
    /\ UNCHANGED <<laterVars, wsState, isConnecting, activeSubscriptions, barSubs, ostiumHandlers, sse,
                   calls, everUnder, retired, replaced, orderBookCache, lastBook, routeVars, appVars,
                   resolveVars>>

\* ws.onmessage with a candle of a streamed channel; closure n calls chart callback n
CandleArrives ==
    /\ wsState["HYPERLIQUID"] = "OPEN"
    /\ \E ch \in streams["HYPERLIQUID"] :
          invokedNow' = Range(CandleTargets(subscribers["HYPERLIQUID"], ch[1], ch[2]))
    /\ UNCHANGED <<laterVars, subscribers, connVars, activeSubscriptions, barSubs, ostiumHandlers, sse,
                   calls, everUnder, retired, replaced, orderBookCache, lastBook, routeVars, appVars,
                   resolveVars>>

\* the server has processed an unsubscribe message: the channel stops
ServerStops ==
    /\ \E c \in WsClients : \E ch \in closing[c] :
          /\ streams' = [streams EXCEPT ![c] = @ \ {ch}]
          /\ closing' = [closing EXCEPT ![c] = @ \ {ch}]
    /\ invokedNow' = {}
    /\ UNCHANGED <<laterVars, subscribers, wsState, isConnecting, tasks, activeSubscriptions, barSubs,
                   ostiumHandlers, sse, calls, everUnder, retired, replaced, orderBookCache, lastBook,
                   routeVars, appVars, resolveVars>>

\* connectSSE: the fetch resolved, the stream is being read
SseEstablished ==
    /\ sse = "connecting"
    /\ sse' = "open"
    /\ sseReconnectAttempts' = 0
    /\ sseAutoSince' = 0
    /\ invokedNow' = {}
    /\ UNCHANGED <<tickVars, lifeVars, sseTimers, sseOrphans, lastUnsubscribe, queueVars, lastMessage, subscribers, connVars,
                   activeSubscriptions, barSubs, ostiumHandlers, calls, everUnder, retired, replaced,
                   orderBookCache, lastBook, routeVars, appVars, resolveVars>>

\* handlePriceUpdate with a price of a symbol; handler n calls chart callback n
OstiumTick ==
    /\ sse = "open"
    /\ \E symbol \in {<<"SPX">>, <<"EUR", "USD">>} :
          invokedNow' = IF symbol \in DOMAIN ostiumHandlers THEN Range(ostiumHandlers[symbol]) ELSE {}
    /\ UNCHANGED <<laterVars, subscribers, connVars, activeSubscriptions, barSubs, ostiumHandlers, sse,
                   calls, everUnder, retired, replaced, orderBookCache, lastBook, routeVars, appVars,
                   resolveVars>>

BarNext ==
    \/ BarSubscribe
    \/ BarUnsubscribe
    \/ CandlesSocketOpened
    \/ CandlesPollResumed
    \/ CandleArrives
    \/ ServerStops
    \/ SseEstablished
    \/ OstiumTick

\* the chart has resolved the symbols it shows
BarsResolved ==
    /\ resolvedSymbolExchange = [o \in BarSymbols |-> o.adapter]
    /\ resolving = {}
    /\ resolves = 0
    /\ lastRequestedSymbol = <<>>
    /\ lastDelegate = [called |-> FALSE, op |-> "none", symbolInfo |-> NoSymbolInfo, exchange |-> "none"]
    /\ lastResolve = [called |-> FALSE, ticker |-> <<>>, symbolName |-> <<>>, symbolInfo |-> NoSymbolInfo]

BarInit == RouteReady /\ BookConstructed /\ BarsConstructed /\ AppConstructed /\ BarsResolved /\ LaterConstructed

BarSpec == BarInit /\ [][BarNext]_vars

(***************************************************************************)
(* Real-time bars: properties.                                             *)
(***************************************************************************)
\* C3: a callback superseded by a repeated subscribeBars of the same id and
\* symbol (no unsubscribeBars in between) is invoked by no later tick or candle.
C3_ResubscribeReplacesCallback == invokedNow \cap replaced = {}

\* C4: a callback registered under an id before an unsubscribeBars(id) that has
\* returned is invoked by no later tick or candle.
C4_UnsubscribedNeverInvoked == invokedNow \cap retired = {}

(***************************************************************************)
(* TradingViewApp: state machine.  The chart becomes ready, the user       *)
(* changes the symbol, sockets open, order-book messages arrive.           *)
(***************************************************************************)
\* number of onSymbolChanged events in a run
MaxSymbolChanges == 3

\* symbolInfo.name of the symbols the chart may change to
AppNames == { <<"BTC">>, <<"ETH">>, <<"LINK">>, <<"SPX">> }

\* the clients' state as the record the operations work on
ClientState ==
    [subs |-> subscribers, cache |-> orderBookCache, ws |-> wsState, conn |-> isConnecting,
     tasks |-> tasks, streams |-> streams, closing |-> closing, active |-> activeOrderBookSubscription]

\* the record written back
ClientStateBecomes(st) ==
    /\ subscribers' = st.subs
    /\ orderBookCache' = st.cache
    /\ wsState' = st.ws
    /\ isConnecting' = st.conn
    /\ tasks' = st.tasks
    /\ streams' = st.streams
    /\ closing' = st.closing
    /\ activeOrderBookSubscription' = st.active

\* widget.onChartReady: the listeners are set up, the panel is set for the initial symbol
ChartReady ==
    /\ ~chartReady
    /\ chartReady' = TRUE
    /\ LET initialExchange == getExchangeForSymbol(symbolExchangeMap, currentSymbol)
       IN  /\ currentExchange' = initialExchange
           /\ ClientStateBecomes(updateOrderBookVisibility(symbolExchangeMap, ClientState, initialExchange,
                                                           currentSymbol, currentSymbol, inits + 1))
    /\ inits' = inits + 1
    /\ bookInvoked' = {}
    /\ UNCHANGED <<laterVars, currentSymbol, lastSwitch, lastBook, routeVars, barVars, resolveVars>>

\* the onSymbolChanged handler; symbolInfo is what the routed adapter resolved for the name
SymbolChanged ==
    /\ chartReady
    /\ inits <= MaxSymbolChanges
    /\ \E name \in AppNames :
          LET symbolInfo  == [name |-> name, exchange |-> getExchangeForSymbol(symbolExchangeMap, name)]
              newSymbol   == CleanSymbolName(symbolInfo.name)
              newExchange == symbolInfo.exchange
              changed     == currentSymbol # newSymbol \/ currentExchange # newExchange
          IN  /\ ClientStateBecomes(
                    IF changed
                    THEN updateOrderBookVisibility(symbolExchangeMap, ClientState, newExchange,
                                                   currentSymbol, newSymbol, inits + 1)
                    ELSE ClientState)
              /\ currentSymbol' = newSymbol
              /\ currentExchange' = newExchange
              /\ lastSwitch' = IF changed
                               THEN [set |-> TRUE, from |-> currentSymbol, to |-> newSymbol,
                                     fromExchange |-> currentExchange, toExchange |-> newExchange,
                                     init |-> inits + 1]
                               ELSE lastSwitch
    /\ inits' = inits + 1
    /\ bookInvoked' = {}
    /\ UNCHANGED <<laterVars, chartReady, lastBook, routeVars, barVars, resolveVars>>

\* a suspended initOrderBook call goes on: the callback is registered, the
\* subscription sent and tracked under the symbol current now
BookResumed(i) ==
    /\ ClientStateBecomes(
          bookSubscribed([ClientState EXCEPT
                             !.tasks = SubSeq(tasks, 1, i - 1) \o SubSeq(tasks, i + 1, Len(tasks)),
                             !.ws[tasks[i].client] = "OPEN",
                             !.conn[tasks[i].client] = IF tasks[i].wait = "onopen" THEN FALSE ELSE @],
                         tasks[i].client, tasks[i].coin, tasks[i].cb, currentSymbol))
    /\ bookInvoked' = {}
    /\ UNCHANGED <<laterVars, chartReady, currentSymbol, currentExchange, inits, lastSwitch, lastBook,
                   routeVars, barVars, resolveVars>>

\* ws.onopen of a client's socket: the call that created the socket resumes
BookSocketOpened ==
    \E i \in 1..Len(tasks) :
        /\ tasks[i].wait = "onopen"
        /\ wsState[tasks[i].client] = "CONNECTING"
        /\ BookResumed(i)

\* a checkConnection timer of a call that found a connection in progress sees the socket open
BookPollResumed ==
    \E i \in 1..Len(tasks) :
        /\ tasks[i].wait = "poll"
        /\ wsState[tasks[i].client] = "OPEN"
        /\ BookResumed(i)

\* ws.onmessage with an order-book message of a streamed market: a HyperLiquid l2Book,
\* or a Lighter snapshot
BookStreamMessage ==
    /\ \E c \in WsClients : \E ch \in streams[c] :
          /\ wsState[c] = "OPEN"
          /\ ch[2] = "orderbook"
          /\ IF c = "LIGHTER"
             THEN LET msg == [type |-> "subscribed/order_book", market |-> ch[1],
                              bids |-> <<[px |-> "100", sz |-> "5"]>>, asks |-> <<>>]
                      r   == handleOrderBook(subscribers[c], orderBookCache, msg)
                  IN  /\ orderBookCache' = r.cache
                      /\ lastBook' = [type |-> msg.type, outcome |-> r.outcome,
                                      invoked |-> r.invoked, levels |-> r.levels]
                      /\ bookInvoked' = IF r.invoked # <<>> THEN {<<c, ch[1]>>} ELSE {}
             ELSE /\ bookInvoked' = IF SubsGet(subscribers[c], ch) # <<>> THEN {<<c, ch[1]>>} ELSE {}
                  /\ UNCHANGED <<orderBookCache, lastBook>>
    /\ UNCHANGED <<laterVars, subscribers, connVars, chartReady, currentSymbol, currentExchange,
                   activeOrderBookSubscription, inits, lastSwitch, routeVars, barVars, resolveVars>>

AppNext ==
    \/ ChartReady
    \/ SymbolChanged
    \/ BookSocketOpened
    \/ BookPollResumed
    \/ BookStreamMessage

AppInit == RouteReady /\ BookConstructed /\ BarsConstructed /\ AppConstructed /\ ResolveConstructed /\ LaterConstructed

AppSpec == AppInit /\ [][AppNext]_vars

(***************************************************************************)
(* TradingViewApp: properties.                                             *)
(***************************************************************************)
\* C1: once a symbol change from A to B, both on exchanges with order books,
\* has completed (the handler has returned and the initOrderBook call it
\* started is no longer suspended), the tracked subscription is for B's market
\* and no message of A's market invokes the order-book callback.
C1_SwitchLeavesOldMarket ==
    LET MarketOf(exchange, symbol) ==
            IF exchange = "LIGHTER" THEN getMarketIdForSymbol(stripExchangePrefix(symbol))
            ELSE stripExchangePrefix(symbol)
    IN  ( /\ lastSwitch.set
          /\ lastSwitch.fromExchange \in WsClients
          /\ lastSwitch.toExchange \in WsClients
          /\ \A i \in 1..Len(tasks) : tasks[i].cb # lastSwitch.init )
        =>
        ( /\ activeOrderBookSubscription.set
          /\ activeOrderBookSubscription.exchange = lastSwitch.toExchange
          /\ activeOrderBookSubscription.subscriptionKey = MarketOf(lastSwitch.toExchange, lastSwitch.to)
          /\ <<lastSwitch.fromExchange, MarketOf(lastSwitch.fromExchange, lastSwitch.from)>> \notin bookInvoked )

\* C2: whenever no initOrderBook call is suspended in await connectWebSocket,
\* at most one order-book callback is registered over all markets of the
\* HyperLiquid and Lighter clients together.
C2_AtMostOneBookCallback ==
    tasks = <<>> =>
        Cardinality({t \in WsClients \X (1..2 * MaxSymbolChanges) \X (1..2 * MaxSymbolChanges) :
                        /\ t[2] <= Len(subscribers[t[1]])
                        /\ subscribers[t[1]][t[2]].key[2] = "orderbook"
                        /\ t[3] <= Len(subscribers[t[1]][t[2]].cbs)}) <= 1

(***************************************************************************)
(* Symbol resolution: state machine.  HyperLiquid and Ostium are           *)
(* initialized, the Lighter markets request is pending; the chart resolves *)
(* names and asks for bars of the objects it was given.                    *)
(***************************************************************************)
\* number of resolveSymbol calls in a run
MaxResolves == 2

\* UnifiedDatafeed.resolveSymbol(symbolName, ...): the adapter is chosen, its resolveSymbol
\* finds (HyperLiquid: or creates) the object and schedules the wrapped callback
ResolveSymbol ==
    /\ resolves < MaxResolves
    /\ resolves' = resolves + 1
    /\ \E symbolName \in { <<"BTC">>, <<"LIGHTER", ":", "BTC">>, <<"LINK">>, <<"SPX">> } :
          LET exchange   == getExchangeForSymbol(symbolExchangeMap, symbolName)
              symbolInfo == IF exchange = "OSTIUM" THEN OstiumResolve(symbols["OSTIUM"], symbolName)
                            ELSE IF exchange = "LIGHTER" THEN LighterResolve(symbols["LIGHTER"], symbolName)
                            ELSE [adapter |-> "HYPERLIQUID", name |-> HyperLiquidResolveKey(symbolName)]
          IN  /\ symbols' = IF exchange = "HYPERLIQUID"
                            THEN [symbols EXCEPT !["HYPERLIQUID"] = SetKey(@, symbolInfo.name)]
                            ELSE symbols
              /\ resolving' = IF symbolInfo = NoSymbolInfo THEN resolving
                              ELSE resolving \cup {[symbolInfo |-> symbolInfo, exchange |-> exchange]}
    /\ UNCHANGED <<laterVars, symbolExchangeMap, isInitialized, initialized, lastRoute,
                   lastResolve, resolvedSymbolExchange, lastRequestedSymbol, lastDelegate, bookVars, connVars, barVars,
                   appVars>>

\* the wrapped callback of a resolveSymbol call: the exchange is stored under the object,
\* the object is handed to the chart
ResolveDelivered ==
    /\ \E r \in resolving :
          /\ resolvedSymbolExchange' = MapSet(resolvedSymbolExchange, r.symbolInfo, r.exchange)
          /\ resolving' = resolving \ {r}
    /\ UNCHANGED <<laterVars, routeVars, lastResolve, resolves, lastRequestedSymbol, lastDelegate, bookVars, connVars,
                   barVars, appVars>>

\* UnifiedDatafeed.getBars(symbolInfo, ...) for an object resolveSymbol delivered, up to
\* the call of the adapter's getBars
GetBars ==
    /\ \E symbolInfo \in DOMAIN resolvedSymbolExchange :
          /\ lastDelegate' = [called |-> TRUE, op |-> "getBars", symbolInfo |-> symbolInfo,
                              exchange |-> exchangeOfSymbolInfo(resolvedSymbolExchange, symbolExchangeMap,
                                                                symbolInfo)]
          /\ lastRequestedSymbol' = symbolInfo.name
    /\ UNCHANGED <<laterVars, routeVars, lastResolve, resolvedSymbolExchange, resolving, resolves, bookVars, connVars,
                   barVars, appVars>>

ResolveNext ==
    \/ LighterInitialize
    \/ UnifiedInitialize
    \/ ResolveSymbol
    \/ ResolveDelivered
    \/ GetBars
    \/ BarSubscribe

\* HyperLiquidDatafeed and OstiumDatafeed are initialized, LighterDatafeed.initialize awaits getMarkets
LighterPending ==
    /\ symbols = [e \in ExchangeNames |->
                    IF e = "HYPERLIQUID" THEN HyperLiquidDefaultSymbols
                    ELSE IF e = "OSTIUM" THEN OstiumDefaultSymbols
                    ELSE <<>>]
    /\ symbolExchangeMap = <<>>
    /\ isInitialized = FALSE
    /\ initialized = {"HYPERLIQUID", "OSTIUM"}
    /\ lastRoute = [called |-> FALSE, name |-> <<>>, result |-> "HYPERLIQUID"]

ResolveInit == LighterPending /\ BookConstructed /\ BarsConstructed /\ AppConstructed /\ ResolveConstructed /\ LaterConstructed

ResolveSpec == ResolveInit /\ [][ResolveNext]_vars

(***************************************************************************)
(* Symbol resolution: properties.                                          *)
(***************************************************************************)
\* C12: every getBars and subscribeBars call with an object that resolveSymbol
\* delivered goes to the adapter that delivered it (the one chosen at resolve
\* time), whatever getExchangeForSymbol would now return for the object's name.
C12_ResolvedAdapterKept ==
    lastDelegate.called => lastDelegate.exchange = lastDelegate.symbolInfo.adapter

\* bars have just been subscribed for Lighter's BTC object, whose bare name now routes to HyperLiquid
C12_LighterBtcKept ==
    /\ lastDelegate.called
    /\ lastDelegate.op = "subscribeBars"
    /\ lastDelegate.symbolInfo = [adapter |-> "LIGHTER", name |-> <<"BTC">>]
    /\ lastDelegate.exchange = "LIGHTER"
    /\ getExchangeForSymbol(symbolExchangeMap, <<"BTC">>) = "HYPERLIQUID"

(***************************************************************************)
(* Ostium real-time bars: state machine.  The chart holds two              *)
(* subscriptions for SPX at one resolution, the price stream is open;      *)
(* ticks arrive, and the chart asks for history.                           *)
(***************************************************************************)
\* number of ticks in a run
MaxTicks == 3

\* tick timestamps are multiples of 30 s up to this many
MaxTickSteps == 4

\* prices are 1..MaxPrice
MaxPrice == 2

\* the last bar of a getCandles answer, converted: time is a bar boundary in ms
HistoryBars ==
    { [time |-> getBarTime(t, BarResolution), open |-> c[1], high |-> c[2], low |-> c[1], close |-> c[2],
       volume |-> 1] :
        t \in { 30000 * i : i \in 0..MaxTickSteps }, c \in { x \in (1..MaxPrice) \X (1..MaxPrice) : x[1] <= x[2] } }

\* OstiumAPI.handlePriceUpdate with a price of a symbol: each handler of the symbol
\* updates the bar of its key and emits it
PriceTick ==
    /\ sse = "open"
    /\ lastTick.n < MaxTicks
    /\ \E symbol \in {<<"SPX">>, <<"EUR", "USD">>}, price \in 1..MaxPrice, timestamp \in { 30000 * i : i \in 0..MaxTickSteps } :
          LET key      == <<symbol, BarResolution>>
              handlers == IF symbol \in DOMAIN ostiumHandlers THEN ostiumHandlers[symbol] ELSE <<>>
              bars     == TickBars(IF key \in DOMAIN lastBars THEN lastBars[key] ELSE NoBar, Len(handlers), price, timestamp,
                                   BarResolution)
          IN  /\ lastTick' = [n |-> lastTick.n + 1, symbol |-> symbol, price |-> price, timestamp |-> timestamp,
                              ordered |-> lastTick.ordered /\ (lastTick.n = 0 \/ timestamp >= lastTick.timestamp)]
              /\ invokedNow' = Range(handlers)
              /\ lastBars' = IF bars = <<>> THEN lastBars ELSE MapSet(lastBars, key, bars[Len(bars)])
              /\ lastEmitted' = <<lastEmitted[Len(lastEmitted)]>> \o bars
    /\ UNCHANGED <<lastAligned, lifeVars, sseVars, lastUnsubscribe, queueVars, lastMessage, subscribers, connVars,
                   activeSubscriptions, barSubs,
                   ostiumHandlers, sse, calls, everUnder, retired, replaced, orderBookCache, lastBook,
                   routeVars, appVars, resolveVars>>

\* UnifiedDatafeed.getBars for the SPX object of Ostium, through OstiumDatafeed.getBars
\* with a non-empty answer: the last bar of the answer is stored under the key
OstiumGetBars ==
    /\ \E symbolInfo \in DOMAIN resolvedSymbolExchange, bar \in HistoryBars :
          /\ exchangeOfSymbolInfo(resolvedSymbolExchange, symbolExchangeMap, symbolInfo) = "OSTIUM"
          /\ lastDelegate' = [called |-> TRUE, op |-> "getBars", symbolInfo |-> symbolInfo, exchange |-> "OSTIUM"]
          /\ lastRequestedSymbol' = symbolInfo.name
          /\ lastBars' = MapSet(lastBars, <<symbolInfo.name, BarResolution>>, bar)
    /\ UNCHANGED <<lastEmitted, lastTick, lastAligned, lifeVars, sseVars, lastUnsubscribe, queueVars, lastMessage, routeVars,
                   lastResolve, resolvedSymbolExchange, resolving, resolves, bookVars, connVars, barVars, appVars>>

TickNext ==
    \/ PriceTick
    \/ OstiumGetBars

\* two subscribeBars calls for SPX have been made and the price stream is open
TicksSubscribed ==
    /\ activeSubscriptions = ("id1" :> "OSTIUM") @@ ("id2" :> "OSTIUM")
    /\ barSubs = [e \in ExchangeNames |->
                    IF e = "OSTIUM"
                    THEN ("id1" :> [symbol |-> <<"SPX">>, cb |-> 1]) @@ ("id2" :> [symbol |-> <<"SPX">>, cb |-> 2])
                    ELSE <<>>]
    /\ ostiumHandlers = (<<"SPX">> :> <<1, 2>>)
    /\ sse = "open"
    /\ calls = 2
    /\ everUnder = ("id1" :> {1}) @@ ("id2" :> {2})
    /\ retired = {}
    /\ replaced = {}
    /\ invokedNow = {}

TickInit == RouteReady /\ BookConstructed /\ TicksSubscribed /\ AppConstructed /\ BarsResolved /\ LaterConstructed

TickSpec == TickInit /\ [][TickNext]_vars

C14_SameBarHighLowClose ==
    lastTick.ordered =>
        /\ \A i \in 1..(Len(lastEmitted) - 1) :
              lastEmitted[i + 1].time = lastEmitted[i].time =>
                  /\ lastEmitted[i + 1].high >= lastEmitted[i].high
                  /\ lastEmitted[i + 1].low <= lastEmitted[i].low
        /\ \A i \in 2..Len(lastEmitted) : lastEmitted[i].close = lastTick.price

(***************************************************************************)
(* The WebSocket connection of HyperLiquidAPI: state machine.  The         *)
(* application connects and disconnects; sockets open, fail and are closed *)
(* by the server; reconnect and polling timers fire.                       *)
(***************************************************************************)
\* number of connectWebSocket calls the application makes
MaxConnectCalls == 2

\* the application (subscribeToCandles, subscribeToOrderBook) calls connectWebSocket()
ConnectCall ==
    /\ wsLog.calls < MaxConnectCalls
    /\ connectWebSocket("call", reconnectTimers, [wsLog EXCEPT !.calls = @ + 1, !.deliberate = FALSE])
    /\ UNCHANGED <<reconnectAttempts, tickVars, sseVars, lastUnsubscribe, queueVars, lastMessage, routeVars, bookVars, streams,
                   closing, tasks, barVars, appVars, resolveVars>>

\* ws.onopen of a connecting socket, the one this.ws names or an orphan
SocketOpens ==
    /\ \/ /\ wsState["HYPERLIQUID"] = "CONNECTING"
          /\ wsState' = [wsState EXCEPT !["HYPERLIQUID"] = "OPEN"]
          /\ UNCHANGED orphans
       \/ /\ orphans.connecting > 0
          /\ orphans' = [orphans EXCEPT !.connecting = @ - 1, !.open = @ + 1]
          /\ UNCHANGED wsState
    /\ isConnecting' = [isConnecting EXCEPT !["HYPERLIQUID"] = FALSE]
    /\ reconnectAttempts' = 0
    /\ wsLog' = [wsLog EXCEPT !.opened = "none", !.autoSince = 0]
    /\ UNCHANGED <<reconnectTimers, pollers, tickVars, sseVars, lastUnsubscribe, queueVars, lastMessage, routeVars, bookVars,
                   streams, closing, tasks, barVars, appVars, resolveVars>>

\* a connecting socket fails: ws.onerror then ws.onclose, in one task
SocketFails ==
    /\ \/ /\ wsState["HYPERLIQUID"] = "CONNECTING"
          /\ wsState' = [wsState EXCEPT !["HYPERLIQUID"] = "CLOSED"]
          /\ UNCHANGED orphans
       \/ /\ orphans.connecting > 0
          /\ orphans' = [orphans EXCEPT !.connecting = @ - 1]
          /\ UNCHANGED wsState
    /\ isConnecting' = [isConnecting EXCEPT !["HYPERLIQUID"] = FALSE]
    /\ handleWebSocketClose
    /\ wsLog' = [wsLog EXCEPT !.opened = "none"]
    /\ UNCHANGED <<pollers, tickVars, sseVars, lastUnsubscribe, queueVars, lastMessage, routeVars, bookVars, streams, closing,
                   tasks, barVars, appVars, resolveVars>>

\* ws.onclose of an open socket the server closes, or of a socket disconnect() closed
SocketCloses ==
    /\ \/ /\ wsState["HYPERLIQUID"] = "OPEN"
          /\ wsState' = [wsState EXCEPT !["HYPERLIQUID"] = "CLOSED"]
          /\ UNCHANGED orphans
       \/ /\ orphans.open > 0
          /\ orphans' = [orphans EXCEPT !.open = @ - 1]
          /\ UNCHANGED wsState
       \/ /\ orphans.closing > 0
          /\ orphans' = [orphans EXCEPT !.closing = @ - 1]
          /\ UNCHANGED wsState
    /\ isConnecting' = [isConnecting EXCEPT !["HYPERLIQUID"] = FALSE]
    /\ handleWebSocketClose
    /\ wsLog' = [wsLog EXCEPT !.opened = "none"]
    /\ UNCHANGED <<pollers, tickVars, sseVars, lastUnsubscribe, queueVars, lastMessage, routeVars, bookVars, streams, closing,
                   tasks, barVars, appVars, resolveVars>>

\* a reconnect timer of handleWebSocketClose fires: connectWebSocket()
ReconnectTimerFires ==
    /\ reconnectTimers > 0
    /\ connectWebSocket("timer", reconnectTimers - 1, wsLog)
    /\ UNCHANGED <<reconnectAttempts, tickVars, sseVars, lastUnsubscribe, queueVars, lastMessage, routeVars, bookVars, streams,
                   closing, tasks, barVars, appVars, resolveVars>>

\* checkConnection of a polling connectWebSocket promise finds this.ws open: it resolves
\* (finding it not open, it sets its timer again and nothing changes)
CheckConnection ==
    /\ pollers > 0
    /\ wsState["HYPERLIQUID"] = "OPEN"
    /\ pollers' = pollers - 1
    /\ wsLog' = [wsLog EXCEPT !.opened = "none"]
    /\ UNCHANGED <<reconnectAttempts, reconnectTimers, orphans, tickVars, sseVars, lastUnsubscribe, queueVars, lastMessage,
                   routeVars, bookVars, connVars, barVars, appVars, resolveVars>>

\* HyperLiquidAPI.disconnectWebSocket()
DisconnectWebSocket ==
    /\ reconnectAttempts' = MaxReconnectAttempts
    /\ wsState' = [wsState EXCEPT !["HYPERLIQUID"] = "none"]
    /\ subscribers' = [subscribers EXCEPT !["HYPERLIQUID"] = <<>>]
    /\ wsLog' = [wsLog EXCEPT !.opened = "none", !.deliberate = TRUE]
    /\ UNCHANGED <<reconnectTimers, pollers, orphans, isConnecting, tickVars, sseVars, lastUnsubscribe, queueVars, lastMessage,
                   routeVars, orderBookCache, lastBook, streams, closing, tasks, barVars, appVars,
                   resolveVars>>

\* HyperLiquidAPI.disconnect(): the socket is closed with its handlers in place
Disconnect ==
    /\ wsState' = [wsState EXCEPT !["HYPERLIQUID"] = "none"]
    /\ orphans' = IF wsState["HYPERLIQUID"] \in {"OPEN", "CONNECTING"}
                  THEN [orphans EXCEPT !.closing = @ + 1] ELSE orphans
    /\ subscribers' = [subscribers EXCEPT !["HYPERLIQUID"] = <<>>]
    /\ wsLog' = [wsLog EXCEPT !.opened = "none", !.deliberate = TRUE]
    /\ wsState["HYPERLIQUID"] # "none"
    /\ UNCHANGED <<reconnectAttempts, reconnectTimers, pollers, isConnecting, tickVars, sseVars,
                   lastUnsubscribe, queueVars, lastMessage, routeVars, orderBookCache, lastBook, streams, closing, tasks, barVars,
                   appVars, resolveVars>>

WsNext ==
    \/ ConnectCall
    \/ SocketOpens
    \/ SocketFails
    \/ SocketCloses
    \/ ReconnectTimerFires
    \/ CheckConnection
    \/ DisconnectWebSocket
    \/ Disconnect

WsInit == RouteReady /\ BookConstructed /\ BarsConstructed /\ AppConstructed /\ ResolveConstructed /\ LaterConstructed

WsSpec == WsInit /\ [][WsNext]_vars

\* every connection attempt ends, and timers fire
WsFairSpec ==
    WsSpec /\ WF_vars(SocketOpens \/ SocketFails) /\ WF_vars(ReconnectTimerFires) /\ WF_vars(CheckConnection)

(***************************************************************************)
(* The WebSocket connection of HyperLiquidAPI: properties.                 *)
(***************************************************************************)
\* C15: after disconnectWebSocket() or disconnect(), and until the application
\* connects again, no reconnect timer (set before the disconnect or by the
\* close it causes) creates a socket.
C15_NoReconnectAfterDisconnect ==
    ~(wsLog.deliberate /\ wsLog.opened = "timer")

\* C16: a connectWebSocket() call never creates a socket while another socket
\* is connecting, and every promise of a call that found a connection in
\* progress is eventually settled.
C16_SecondConnectSettles ==
    /\ [](wsLog.opened # "none" => ~wsLog.inFlight)
    /\ [](pollers > 0 => <>(pollers = 0))

(***************************************************************************)
(* The price stream of OstiumAPI: state machine.  The chart subscribes and *)
(* unsubscribes bars of SPX; the fetch of connectSSE succeeds or fails,    *)
(* the stream ends, reconnect timers fire.  sse is the transport of the    *)
(* current sseAbortController; isConnecting holds exactly while sse is     *)
(* "connecting" (an aborted fetch rejects before anything else runs).      *)
(***************************************************************************)
\* connectSSE: the fetch fails.  "fetch": a TypeError whose message names fetch, no
\* retry; "http": the answer is not ok, the error path may set a reconnect timer
SseFetchFails ==
    /\ sse = "connecting"
    /\ sse' = "idle"
    /\ \E error \in {"fetch", "http"} :
          IF error = "http" /\ sseReconnectAttempts < OstiumMaxReconnectAttempts
          THEN /\ sseReconnectAttempts' = sseReconnectAttempts + 1
               /\ sseTimers' = sseTimers + 1
          ELSE UNCHANGED <<sseReconnectAttempts, sseTimers>>
    /\ invokedNow' = {}
    /\ UNCHANGED <<tickVars, lifeVars, sseOrphans, sseAutoSince, lastUnsubscribe, queueVars, lastMessage, subscribers, connVars,
                   activeSubscriptions, barSubs, ostiumHandlers, calls, everUnder, retired, replaced,
                   orderBookCache, lastBook, routeVars, appVars, resolveVars>>

\* readSSEStream: a stream being read ends (done, or a read error): reconnectSSE()
SseStreamEnds ==
    /\ \/ /\ sse = "open"
          /\ sse' = "idle"
          /\ UNCHANGED sseOrphans
       \/ /\ sseOrphans > 0
          /\ sseOrphans' = sseOrphans - 1
          /\ UNCHANGED sse
    /\ sseTimers' = IF sseReconnectAttempts < OstiumMaxReconnectAttempts THEN sseTimers + 1 ELSE sseTimers
    /\ invokedNow' = {}
    /\ UNCHANGED <<tickVars, lifeVars, sseReconnectAttempts, sseAutoSince, lastUnsubscribe, queueVars, lastMessage, subscribers,
                   connVars, activeSubscriptions, barSubs, ostiumHandlers, calls, everUnder, retired,
                   replaced, orderBookCache, lastBook, routeVars, appVars, resolveVars>>

\* a reconnect timer of OstiumAPI fires: connectSSE()
SseTimerFires ==
    /\ sseTimers > 0
    /\ sseTimers' = sseTimers - 1
    /\ IF sse = "connecting"
       THEN UNCHANGED <<sse, sseOrphans, sseAutoSince>>
       ELSE /\ sse' = "connecting"
            /\ sseOrphans' = IF sse = "open" THEN sseOrphans + 1 ELSE sseOrphans
            /\ sseAutoSince' = sseAutoSince + 1
    /\ invokedNow' = {}
    /\ UNCHANGED <<tickVars, lifeVars, sseReconnectAttempts, lastUnsubscribe, queueVars, lastMessage, subscribers, connVars,
                   activeSubscriptions, barSubs, ostiumHandlers, calls, everUnder, retired, replaced,
                   orderBookCache, lastBook, routeVars, appVars, resolveVars>>

SseNext ==
    \/ BarSubscribe
    \/ BarUnsubscribe
    \/ SseEstablished
    \/ SseFetchFails
    \/ SseStreamEnds
    \/ SseTimerFires

\* the chart has resolved SPX of Ostium
SpxResolved ==
    /\ resolvedSymbolExchange = ([adapter |-> "OSTIUM", name |-> <<"SPX">>] :> "OSTIUM")
    /\ resolving = {}
    /\ resolves = 1
    /\ lastRequestedSymbol = <<>>
    /\ lastDelegate = [called |-> FALSE, op |-> "none", symbolInfo |-> NoSymbolInfo, exchange |-> "none"]
    /\ lastResolve = [called |-> FALSE, ticker |-> <<>>, symbolName |-> <<>>, symbolInfo |-> NoSymbolInfo]

SseInit == RouteReady /\ BookConstructed /\ BarsConstructed /\ AppConstructed /\ SpxResolved /\ LaterConstructed

SseSpec == SseInit /\ [][SseNext]_vars

(***************************************************************************)
(* The price stream of OstiumAPI: properties.                              *)
(***************************************************************************)
\* C17: since the last fetch that succeeded, reconnect timers have started at
\* most maxReconnectAttempts connection attempts.
C17_ReconnectsBounded ==
    sseAutoSince <= OstiumMaxReconnectAttempts

\* C20: while the Ostium adapter holds no bar subscription, no stream is being
\* read and no fetch of one is in flight.
C20_NoStreamWithoutSubscription ==
    DOMAIN barSubs["OSTIUM"] = {} => sse = "idle" /\ sseOrphans = 0

MaxRequests == 3

\* the clock advances in steps of 50 ms, at most this many
MaxClockSteps == 6

\* makeRateLimitedRequest(url, body): the request is queued, processRequestQueue() is called
MakeRateLimitedRequest ==
    /\ Len(dispatched) + Len(requestQueue) < MaxRequests
    /\ \E t \in { x \in { MinRequestInterval + 50 * i : i \in 0..MaxClockSteps } : x >= now } :
          /\ now' = t
          /\ makeRateLimitedRequest(t)
    /\ UNCHANGED <<queueOwner, lastCandles, lastGetBars, tickVars, lifeVars, sseVars, lastUnsubscribe, lastMessage, routeVars, bookVars, connVars, barVars,
                   appVars, resolveVars>>

\* the timer of the rate-limit wait fires, when the rest of the interval has passed or
\* later: the next request is dispatched
RateTimerFires ==
    /\ processor = "waiting"
    /\ \E t \in { x \in { MinRequestInterval + 50 * i : i \in 0..MaxClockSteps }
                          \cup {lastRequestTime + MinRequestInterval} : x >= now } :
          /\ t - lastRequestTime >= MinRequestInterval
          /\ now' = t
          /\ dispatchRequest(requestQueue, t, inFlight)
    /\ UNCHANGED <<queueOwner, lastCandles, lastGetBars, tickVars, lifeVars, sseVars, lastUnsubscribe, lastMessage, routeVars, bookVars, connVars, barVars,
                   appVars, resolveVars>>

\* the fetch of the dispatched request settles: its promise is resolved or rejected and
\* the loop goes on
FetchSettles ==
    /\ processor = "fetching"
    /\ \E t \in { x \in { MinRequestInterval + 50 * i : i \in 0..MaxClockSteps } \cup {now} : x >= now } :
          /\ now' = t
          /\ processRequestQueue(requestQueue, t, inFlight \ {dispatched[Len(dispatched)]})
    /\ UNCHANGED <<queueOwner, lastCandles, lastGetBars, tickVars, lifeVars, sseVars, lastUnsubscribe, lastMessage, routeVars, bookVars, connVars, barVars,
                   appVars, resolveVars>>

\* the times getCandles is called with, in seconds: a missing one, one of 1970, the
\* first second of 2020 and a minute later
CandleTimes == {0, 1, MinValidTime, MinValidTime + 60}

\* getCandles(instrument, interval, startTime, endTime) of the client: it throws, or it
\* submits its request with makeRateLimitedRequest
GetCandles ==
    /\ Len(dispatched) + Len(requestQueue) < MaxRequests
    /\ \E startTime \in CandleTimes, endTime \in CandleTimes,
          t \in { x \in { MinRequestInterval + 50 * i : i \in 0..MaxClockSteps } : x >= now } :
          /\ now' = t
          /\ IF getCandlesValidates(queueOwner, startTime, endTime)
             THEN /\ makeRateLimitedRequest(t)
                  /\ lastCandles' = [called |-> TRUE, startTime |-> startTime, endTime |-> endTime,
                                     outcome |-> "submitted"]
             ELSE /\ lastCandles' = [called |-> TRUE, startTime |-> startTime, endTime |-> endTime,
                                     outcome |-> "rejected"]
                  /\ UNCHANGED <<requestQueue, isProcessingQueue, lastRequestTime, processor,
                                 dispatched, inFlight>>
    /\ UNCHANGED <<queueOwner, lastGetBars, tickVars, lifeVars, sseVars, lastUnsubscribe, lastMessage, routeVars, bookVars,
                   connVars, barVars, appVars, resolveVars>>

\* getBars of the client's adapter, from its call to the callback it ends with; the
\* outcome of its api.getCandles is any of the three
AdapterGetBars ==
    /\ \E fetch \in {"threw", "empty", "candles"} : lastGetBars' = adapterGetBars(queueOwner, fetch)
    /\ UNCHANGED <<requestQueue, isProcessingQueue, lastRequestTime, now, processor, dispatched, queueOwner,
                   inFlight, lastCandles, tickVars, lifeVars, sseVars, lastUnsubscribe, lastMessage, routeVars, bookVars,
                   connVars, barVars, appVars, resolveVars>>

QueueNext ==
    \/ MakeRateLimitedRequest
    \/ GetCandles
    \/ AdapterGetBars
    \/ RateTimerFires
    \/ FetchSettles

\* one of the three clients, as constructed
QueueInit ==
    /\ RouteReady /\ BookConstructed /\ BarsConstructed /\ AppConstructed /\ ResolveConstructed
    /\ TicksConstructed /\ WsConstructed /\ SseConstructed
    /\ lastUnsubscribe = [called |-> FALSE, found |-> FALSE, outcome |-> "returned", adapter |-> "none"]
    /\ QueueConstructed
    /\ queueOwner \in ExchangeNames
    /\ StreamConstructed

QueueSpec == QueueInit /\ [][QueueNext]_vars

\* submissions and the drain of the queue
QueueDrainNext ==
    \/ MakeRateLimitedRequest
    \/ RateTimerFires
    \/ FetchSettles

\* the event loop runs every timer that is due, and every fetch completes
QueueFairSpec == QueueInit /\ [][QueueDrainNext]_vars /\ WF_vars(RateTimerFires) /\ WF_vars(FetchSettles)

C22_BadRangeRejected ==
    (/\ lastCandles.called
     /\ \/ lastCandles.startTime >= lastCandles.endTime
        \/ lastCandles.startTime < MinValidTime
        \/ lastCandles.endTime < MinValidTime)
    => lastCandles.outcome = "rejected"

\* C30: at most one request passed to fetch has a fetch that has not settled.
C30_SingleFlight == Cardinality(inFlight) <= 1

\* a request was submitted while the fetch of an earlier one was in flight, and waits
C30_SubmittedDuringFetch ==
    /\ processor = "fetching"
    /\ Cardinality(inFlight) = 1
    /\ requestQueue # <<>>

\* C21: a getBars call ends with exactly one call of exactly one callback: onHistory
\* with no bar and noData = true when the fetch returned no candle, onHistory with the
\* bars and noData = false when it returned candles, onError when it failed.
C21_OneCallbackPerOutcome ==
    lastGetBars.called =>
        /\ lastGetBars.onHistory + lastGetBars.onError = 1
        /\ lastGetBars.fetch = "empty" =>
              lastGetBars.onHistory = 1 /\ lastGetBars.bars = "empty" /\ lastGetBars.noData = "true"
        /\ lastGetBars.fetch = "candles" =>
              lastGetBars.onHistory = 1 /\ lastGetBars.bars = "candles" /\ lastGetBars.noData = "false"
        /\ lastGetBars.fetch = "threw" => lastGetBars.onError = 1

\* C23: the client has at most one transport that is connecting or open: the socket
\* this.ws names and the sockets it no longer names whose handlers are still set
\* count together, and so do the price stream being read and the streams no abort
\* controller reaches.
C23_OneTransportPerClient ==
    /\ (IF wsState["HYPERLIQUID"] = "none" THEN 0 ELSE 1) + orphans.connecting + orphans.open <= 1
    /\ (IF sse = "idle" THEN 0 ELSE 1) + sseOrphans <= 1

\* C24: when disconnectWebSocket() of the Lighter client returns, the client holds no
\* subscriber and no cached order book of any market, so that a delta arriving after
\* a later subscription and before its snapshot finds no book to be applied to.
C24_DisconnectClearsBooks ==
    [][BookDisconnect => (subscribers'["LIGHTER"] = <<>> /\ orderBookCache' = <<>>)]_vars

\* C27: an order-book message for a market without a registered callback invokes no
\* callback and leaves the order-book cache as it is, whatever the message carries
\* and whatever is cached, for the Lighter and for the HyperLiquid client.
C27_NoCallbackNoProcessing ==
    /\ \A m \in BookMarkets :
          SubsGet(subscribers["LIGHTER"], <<m, "orderbook">>) = <<>> =>
              \A msg \in BookMessages :
                  msg.market = m =>
                      LET r == handleOrderBook(subscribers["LIGHTER"], orderBookCache, msg)
                      IN  r.invoked = <<>> /\ r.cache = orderBookCache
    /\ SubsGet(subscribers["HYPERLIQUID"], << <<"BTC">>, "orderbook">>) = <<>> =>
          handleL2Book(subscribers["HYPERLIQUID"], <<"BTC">>).invoked = <<>>
    /\ lastBook.outcome = "ignored" => lastBook.invoked = <<>>

\* a snapshot has just been ignored for a market that has a cached book and no callback
C27_SnapshotIgnored ==
    /\ lastBook.type = "subscribed/order_book"
    /\ lastBook.outcome = "ignored"
    /\ SubsGet(subscribers["LIGHTER"], << <<"1">>, "orderbook">>) = <<>>
    /\ <<"1">> \in DOMAIN orderBookCache

\* C26: no order-book key of a WebSocket client ever holds more than one callback,
\* and when a subscribeToOrderBook(key, cb) call suspended in its await goes on and
\* completes, the callbacks under key are exactly cb, whatever other calls on the
\* same key were started or completed meanwhile.
C26_OneCallbackPerKey ==
    /\ [](\A c \in WsClients : \A i \in 1..Len(subscribers[c]) :
             subscribers[c][i].key[2] = "orderbook" => Len(subscribers[c][i].cbs) <= 1)
    /\ [][\A i \in 1..Len(tasks) :
             BookResumed(i) =>
                 SubsGet(subscribers'[tasks[i].client], <<tasks[i].coin, "orderbook">>) = <<tasks[i].cb>>]_vars

\* three calls were suspended together, the first two for BTC; all have completed and
\* the callback of the second call is the one registered for BTC
C26_LaterCallReplaced ==
    /\ tasks = <<>>
    /\ SubsGet(subscribers["HYPERLIQUID"], << <<"BTC">>, "orderbook">>) = <<2>>
    /\ SubsGet(subscribers["HYPERLIQUID"], << <<"ETH">>, "orderbook">>) = <<3>>

\* C25: an adapter holds a subscription record for a subscriber id only if it is the
\* adapter activeSubscriptions records for the id, so that no id has a record on two
\* adapters, nor on the old adapter after a subscribeBars that moved it to another.
C25_OneAdapterPerSubscriber ==
    \A uid \in BarIds : \A exchange \in ExchangeNames :
        uid \in DOMAIN barSubs[exchange] =>
            uid \in DOMAIN activeSubscriptions /\ activeSubscriptions[uid] = exchange

\* C28: once the symbol map is built, no ticker claimed by two or more adapters is a
\* key of symbolExchangeMap without a prefix, whatever the adapters' tables hold.
C28_AmbiguousTickerOnlyPrefixed ==
    isInitialized =>
        \A t \in UNION {Range(symbols[e]) : e \in ExchangeNames} :
            Cardinality({e \in ExchangeNames : Contains(symbols[e], t)}) >= 2 =>
                ~MapHas(symbolExchangeMap, t)

\* C29: on a tick of a (symbol, resolution) key, each handler of the symbol
\* emits one bar and stores it under the key.  When no bar is stored, or the
\* tick's resolution-aligned time is greater than the stored bar's time, the
\* bar is a new one: time = the aligned tick time, open = high = low = close
\* = the tick price, volume 0.  Otherwise it is the stored bar updated in
\* place: time, open and volume unchanged, close = the tick price, high and
\* low widened to contain the price.
C29_TickOpensOrUpdates ==
    [][lastTick'.n = lastTick.n + 1 =>
        LET key      == <<lastTick'.symbol, BarResolution>>
            price    == lastTick'.price
            aligned  == getBarTime(lastTick'.timestamp, BarResolution)
            handlers == IF lastTick'.symbol \in DOMAIN ostiumHandlers THEN ostiumHandlers[lastTick'.symbol] ELSE <<>>
            stored   == IF key \in DOMAIN lastBars THEN lastBars[key] ELSE NoBar
        IN  /\ Len(lastEmitted') = 1 + Len(handlers)
            /\ handlers # <<>> => key \in DOMAIN lastBars' /\ lastBars'[key] = lastEmitted'[Len(lastEmitted')]
            /\ \A i \in 2..Len(lastEmitted') :
                  LET before  == IF i = 2 THEN stored ELSE lastEmitted'[i - 1]
                      emitted == lastEmitted'[i]
                  IN  IF before = NoBar \/ aligned > before.time
                      THEN emitted = [time |-> aligned, open |-> price, high |-> price, low |-> price,
                                      close |-> price, volume |-> 0]
                      ELSE /\ emitted.time = before.time
                           /\ emitted.open = before.open
                           /\ emitted.volume = before.volume
                           /\ emitted.close = price
                           /\ emitted.high = (IF before.high >= price THEN before.high ELSE price)
                           /\ emitted.low = (IF before.low <= price THEN before.low ELSE price)]_vars

\* a tick of SPX in a later window than the bar emitted before it: the first
\* handler opened a new bar at the tick's price, the second updated that bar
C29_NewBarThenUpdated ==
    /\ lastTick.n >= 2
    /\ lastTick.symbol = <<"SPX">>
    /\ Len(lastEmitted) = 3
    /\ lastEmitted[1] # NoBar
    /\ lastEmitted[2].time = getBarTime(lastTick.timestamp, BarResolution)
    /\ lastEmitted[2].time > lastEmitted[1].time
    /\ lastEmitted[2].open = lastTick.price
    /\ lastEmitted[2].volume = 0
    /\ lastEmitted[3] = lastEmitted[2]
    /\ lastBars[<<<<"SPX">>, BarResolution>>] = lastEmitted[3]

(***************************************************************************)
(* Stream messages: state machine.  Candle and order-book callbacks are    *)
(* registered in HyperLiquidAPI on the open socket, handlers in OstiumAPI; *)
(* messages arrive on the socket and on the price stream, and any of the   *)
(* callbacks may throw.                                                    *)
(***************************************************************************)
StreamCoins == { <<"BTC">>, <<"ETH">> }

CandleCallbacks == {"c1", "c2"}

PriceHandlers == {"h1", "h2"}

\* what the socket delivers: candles, l2Book snapshots, and text that is no JSON
SocketMessages ==
    { [channel |-> "candle", key |-> <<coin, interval>>] : coin \in StreamCoins, interval \in {"1m", "1h"} }
    \cup { [channel |-> "l2Book", key |-> <<coin, "orderbook">>] : coin \in StreamCoins }
    \cup { [channel |-> "malformed", key |-> <<>>] }

\* what the price stream delivers
PriceMessages ==
    { [channel |-> "price", key |-> <<symbol>>] : symbol \in {<<"SPX">>, <<"EUR", "USD">>} }
    \cup { [channel |-> "malformed", key |-> <<>>] }

\* the record of a message and of what its handler did
Delivered(client, data, T, r) ==
    [client |-> client, channel |-> data.channel, key |-> data.key, threw |-> T \cap Range(r.invoked),
     invoked |-> r.invoked, escaped |-> r.escaped,
     failedBefore |-> \/ lastMessage.failedBefore
                      \/ lastMessage.threw # {}
                      \/ lastMessage.channel = "malformed"]

\* HyperLiquidAPI.subscribeToCandles("BTC", "1m", cb) on the open socket
CandlesSubscribe ==
    /\ \E cb \in CandleCallbacks :
          subscribers' = [subscribers EXCEPT !["HYPERLIQUID"] = RegisterCandles(@, <<"BTC">>, "1m", cb)]
    /\ UNCHANGED <<laterVars, orderBookCache, lastBook, routeVars, connVars, barVars, appVars, resolveVars>>

\* HyperLiquidAPI.unsubscribeFromCandles("BTC", "1m", cb)
CandlesUnsubscribe ==
    /\ \E cb \in CandleCallbacks :
          subscribers' = [subscribers EXCEPT !["HYPERLIQUID"] = UnregisterCandles(@, <<"BTC">>, "1m", cb)]
    /\ UNCHANGED <<laterVars, orderBookCache, lastBook, routeVars, connVars, barVars, appVars, resolveVars>>

\* OstiumAPI.subscribe("SPX", handler) with a handler that is not registered
PriceSubscribe ==
    /\ \E handler \in PriceHandlers :
          /\ <<"SPX">> \in DOMAIN ostiumHandlers => ~Contains(ostiumHandlers[<<"SPX">>], handler)
          /\ ostiumHandlers' = OstiumSubscribe(ostiumHandlers, <<"SPX">>, handler)
    /\ UNCHANGED <<laterVars, bookVars, routeVars, connVars, activeSubscriptions, barSubs, sse, calls, everUnder,
                   retired, replaced, invokedNow, appVars, resolveVars>>

\* OstiumAPI.unsubscribe("SPX", handler)
PriceUnsubscribe ==
    /\ \E handler \in PriceHandlers : ostiumHandlers' = OstiumUnsubscribe(ostiumHandlers, <<"SPX">>, handler)
    /\ UNCHANGED <<laterVars, bookVars, routeVars, connVars, activeSubscriptions, barSubs, sse, calls, everUnder,
                   retired, replaced, invokedNow, appVars, resolveVars>>

\* ws.onmessage of the HyperLiquid socket
SocketMessage ==
    /\ \E data \in SocketMessages, T \in SUBSET (CandleCallbacks \cup BookCallbacks) :
          lastMessage' = Delivered("HYPERLIQUID", data, T, onmessage(subscribers["HYPERLIQUID"], data, T))
    /\ UNCHANGED <<tickVars, lifeVars, sseVars, lastUnsubscribe, queueVars, bookVars, routeVars, connVars, barVars,
                   appVars, resolveVars>>

\* processSSEBuffer with one complete message of the price stream
PriceMessage ==
    /\ \E data \in PriceMessages, T \in SUBSET PriceHandlers :
          lastMessage' = Delivered("OSTIUM", data, T, processSSEMessage(ostiumHandlers, data, T))
    /\ UNCHANGED <<tickVars, lifeVars, sseVars, lastUnsubscribe, queueVars, bookVars, routeVars, connVars, barVars,
                   appVars, resolveVars>>

StreamNext ==
    \/ CandlesSubscribe
    \/ CandlesUnsubscribe
    \/ L2BookSubscribe
    \/ L2BookUnsubscribe
    \/ PriceSubscribe
    \/ PriceUnsubscribe
    \/ SocketMessage
    \/ PriceMessage

StreamInit == RouteReady /\ BookConstructed /\ BarsConstructed /\ AppConstructed /\ ResolveConstructed /\ LaterConstructed

StreamSpec == StreamInit /\ [][StreamNext]_vars

(***************************************************************************)
(* Stream messages: properties.                                            *)
(***************************************************************************)
\* C31: no exception leaves a stream message handler, whether a callback
\* throws or the message does not parse; every callback registered on the
\* channel of a parsed message is invoked for it, also when another callback
\* of the channel throws and also after earlier messages failed.
C31_ThrowingCallbackIsolated ==
    [][lastMessage' # lastMessage =>
        LET registered ==
                IF lastMessage'.channel = "malformed" THEN <<>>
                ELSE IF lastMessage'.client = "HYPERLIQUID"
                THEN SubsGet(subscribers["HYPERLIQUID"], lastMessage'.key)
                ELSE IF lastMessage'.key[1] \in DOMAIN ostiumHandlers
                THEN ostiumHandlers[lastMessage'.key[1]] ELSE <<>>
        IN  /\ ~lastMessage'.escaped
            /\ Range(registered) \subseteq Range(lastMessage'.invoked)]_vars

\* after a message that failed, a candle whose first callback threw: the
\* second callback of the key was still invoked
C31_SecondCallbackStillInvoked ==
    /\ lastMessage.failedBefore
    /\ lastMessage.channel = "candle"
    /\ Len(lastMessage.invoked) = 2
    /\ lastMessage.invoked[1] \in lastMessage.threw
    /\ lastMessage.invoked[2] \notin lastMessage.threw
    /\ SubsGet(subscribers["HYPERLIQUID"], lastMessage.key) = lastMessage.invoked

\* C36: a message of the HyperLiquid socket invokes only callbacks registered
\* under its own key: a candle those of (coin, interval), an l2Book message
\* those of the coin's order book; a candle of a key with no subscribers
\* invokes nothing.
C36_OnlyOwnKeyInvoked ==
    [][lastMessage' # lastMessage /\ lastMessage'.client = "HYPERLIQUID" =>
        Range(lastMessage'.invoked) \subseteq Range(SubsGet(subscribers["HYPERLIQUID"], lastMessage'.key))]_vars

(***************************************************************************)
(* Names asked of the adapters: state machine.  After initialize() the     *)
(* chart routes names and asks OstiumDatafeed to resolve the forms of its  *)
(* tickers.                                                                *)
(***************************************************************************)
\* the forms of a ticker: bare and prefixed, with and without a USD suffix
TickerForms(t) == { t, WithPrefix("OSTIUM", t), WithUSD(t), WithPrefix("OSTIUM", WithUSD(t)) }

\* OstiumDatafeed.resolveSymbol(symbolName, ...) for a form of a ticker of its table
OstiumResolveSymbol ==
    /\ \E t \in Range(symbols["OSTIUM"]) : \E symbolName \in TickerForms(t) :
          lastResolve' = [called |-> TRUE, ticker |-> t, symbolName |-> symbolName,
                          symbolInfo |-> OstiumResolve(symbols["OSTIUM"], symbolName)]
    /\ UNCHANGED <<laterVars, routeVars, resolvedSymbolExchange, resolving, resolves, lastRequestedSymbol,
                   lastDelegate, bookVars, connVars, barVars, appVars>>

\* the market_id values of the markets endpoint
LighterMarketIds == {0, 1, 2}

\* LighterDatafeed.getBars(symbolInfo, ...) for the registered market LINK, whose
\* market_id is any of the ids; the fetch of getCandles throws, is empty or has candles
LighterGetBars ==
    /\ Contains(symbols["LIGHTER"], <<"LINK">>)
    /\ \E marketId \in LighterMarketIds, fetch \in {"threw", "empty", "candles"} :
          lastGetBars' = lighterGetBars(marketId, fetch)
    /\ UNCHANGED <<requestQueue, isProcessingQueue, lastRequestTime, now, processor, dispatched, queueOwner, inFlight,
                   lastCandles, tickVars, lifeVars, sseVars, lastUnsubscribe, lastMessage, routeVars, bookVars,
                   connVars, barVars, appVars, resolveVars>>

NameNext ==
    \/ RouteQuery
    \/ OstiumResolveSymbol
    \/ LighterGetBars

NameInit == RouteReady /\ BookConstructed /\ BarsConstructed /\ AppConstructed /\ ResolveConstructed /\ LaterConstructed

NameSpec == NameInit /\ [][NameNext]_vars

\* C32: OstiumDatafeed.resolveSymbol resolves every ticker t of its table
\* from t and from OSTIUM:t and, when t is no forex pair, also from tUSD and
\* OSTIUM:tUSD, each time to the SymbolInfo of t.
C32_OstiumFormsResolve ==
    lastResolve.called =>
        LET t     == lastResolve.ticker
            forex == Len(t) = 2 /\ t[2] = "USD"
        IN  lastResolve.symbolName \in {t, WithPrefix("OSTIUM", t)}
                \cup (IF forex THEN {} ELSE {WithUSD(t), WithPrefix("OSTIUM", WithUSD(t))})
            => lastResolve.symbolInfo = [adapter |-> "OSTIUM", name |-> t]

\* C33: once initialize() has completed, no step changes the set of tickers
\* of any adapter's symbols map.
C33_TablesReadOnlyAfterInit ==
    [][isInitialized => \A e \in ExchangeNames : Range(symbols'[e]) = Range(symbols[e])]_vars

(***************************************************************************)
(* Bar alignment: state machine.  Two ticks arrive for a subscription of   *)
(* one of the supported resolutions and the handler aligns each.           *)
(***************************************************************************)
\* tick timestamps (ms): around the first hours, and at one day, three days and a week
AlignTimes == {0, 1800000, 3600000, 5400000, 86400000, 259200000, 604800000}

\* the handler's getBarTime(timestamp, resolution) for two ticks of a subscription
AlignTicks ==
    /\ \E resolution \in supportedResolutions, t1 \in AlignTimes, t2 \in AlignTimes :
          lastAligned' = [called |-> TRUE, resolution |-> resolution, t1 |-> t1, t2 |-> t2,
                          barTime1 |-> getBarTime(t1, resolution), barTime2 |-> getBarTime(t2, resolution)]
    /\ UNCHANGED <<lastBars, lastEmitted, lastTick, lifeVars, sseVars, lastUnsubscribe, queueVars, lastMessage,
                   routeVars, bookVars, connVars, barVars, appVars, resolveVars>>

AlignNext == AlignTicks

AlignSpec == TickInit /\ [][AlignNext]_vars

\* the length of a resolution in milliseconds
ResolutionMs ==
    ("1" :> 60000) @@ ("3" :> 180000) @@ ("5" :> 300000) @@ ("15" :> 900000) @@ ("30" :> 1800000) @@
    ("60" :> 3600000) @@ ("120" :> 7200000) @@ ("240" :> 14400000) @@ ("360" :> 21600000) @@
    ("480" :> 28800000) @@ ("720" :> 43200000) @@ ("1D" :> 86400000) @@ ("3D" :> 259200000) @@
    ("1W" :> 604800000)

\* C34: for every supported resolution R, 3D and 1W included, getBarTime(ts, R)
\* is ts rounded down to a multiple of the length of R, so two ticks get the
\* same bar time exactly when they fall in the same R-long window.
C34_AlignedToResolution ==
    lastAligned.called =>
        LET ms == ResolutionMs[lastAligned.resolution]
        IN  /\ lastAligned.barTime1 = (lastAligned.t1 \div ms) * ms
            /\ lastAligned.barTime2 = (lastAligned.t2 \div ms) * ms
            /\ (lastAligned.barTime1 = lastAligned.barTime2) <=> (lastAligned.t1 \div ms = lastAligned.t2 \div ms)

\* C35: getBars of the Lighter adapter for a market registered at initialize
\* calls LighterAPI.getCandles with the market's id whatever the id is, 0
\* included, and reports an error only when that fetch failed.
C35_EveryMarketIdFetched ==
    lastGetBars.called =>
        /\ lastGetBars.fetch # "none"
        /\ lastGetBars.onError = 1 => lastGetBars.fetch = "threw"

(***************************************************************************)
(* The order-book panel beside real-time bars: state machine.  The chart   *)
(* has subscribed bars of BTC on HyperLiquid and candles stream; then the  *)
(* chart becomes ready, the symbol changes, order-book calls resume.       *)
(***************************************************************************)
\* subscribeBars("id1") of BTC has completed: the socket is open, chart callback 1 is
\* registered under BTC_1m and the candle subscription is sent
CandlesStreaming ==
    /\ subscribers = [c \in WsClients |->
                        IF c = "HYPERLIQUID"
                        THEN <<[key |-> << <<"BTC">>, convertInterval(BarResolution)>>, cbs |-> <<1>>]>>
                        ELSE <<>>]
    /\ orderBookCache = <<>>
    /\ lastBook = [type |-> "none", outcome |-> "none", invoked |-> <<>>, levels |-> <<>>]
    /\ wsState = [c \in WsClients |-> IF c = "HYPERLIQUID" THEN "OPEN" ELSE "none"]
    /\ isConnecting = [c \in WsClients |-> FALSE]
    /\ tasks = <<>>
    /\ streams = [c \in WsClients |->
                    IF c = "HYPERLIQUID" THEN {<< <<"BTC">>, convertInterval(BarResolution)>>} ELSE {}]
    /\ closing = [c \in WsClients |-> {}]
    /\ activeSubscriptions = ("id1" :> "HYPERLIQUID")
    /\ barSubs = [e \in ExchangeNames |->
                    IF e = "HYPERLIQUID" THEN ("id1" :> [symbol |-> <<"BTC">>, cb |-> 1]) ELSE <<>>]
    /\ ostiumHandlers = <<>>
    /\ sse = "idle"
    /\ calls = 1
    /\ everUnder = ("id1" :> {1})
    /\ retired = {}
    /\ replaced = {}
    /\ invokedNow = {}

PanelNext ==
    \/ ChartReady
    \/ SymbolChanged
    \/ BookSocketOpened
    \/ BookPollResumed
    \/ BookStreamMessage
    \/ CandleArrives

PanelInit == RouteReady /\ CandlesStreaming /\ AppConstructed /\ BarsResolved /\ LaterConstructed

PanelSpec == PanelInit /\ [][PanelNext]_vars

\* C37: the order-book teardown of a symbol switch leaves the real-time bar
\* subscriptions alone: the candle callback of every subscribeBars that has
\* not been unsubscribed stays registered in HyperLiquidAPI.subscribers under
\* its (coin, interval) key.
C37_CandleCallbacksSurviveCleanup ==
    \A uid \in DOMAIN barSubs["HYPERLIQUID"] :
        Contains(SubsGet(subscribers["HYPERLIQUID"],
                         <<barSubs["HYPERLIQUID"][uid].symbol, convertInterval(BarResolution)>>),
                 barSubs["HYPERLIQUID"][uid].cb)

(***************************************************************************)
(* Reconnection with subscriptions: state machine.  Candles of BTC stream  *)
(* on the open socket; the server closes the socket, reconnect timers      *)
(* fire, sockets open or fail, the application calls connectWebSocket().   *)
(***************************************************************************)
\* ws.onclose of the open socket the server closed: its channels end with it
ServerClosesSocket ==
    /\ wsState["HYPERLIQUID"] = "OPEN"
    /\ wsState' = [wsState EXCEPT !["HYPERLIQUID"] = "CLOSED"]
    /\ streams' = [streams EXCEPT !["HYPERLIQUID"] = {}]
    /\ closing' = [closing EXCEPT !["HYPERLIQUID"] = {}]
    /\ isConnecting' = [isConnecting EXCEPT !["HYPERLIQUID"] = FALSE]
    /\ handleWebSocketClose
    /\ wsLog' = [wsLog EXCEPT !.opened = "none"]
    /\ invokedNow' = {}
    /\ UNCHANGED <<pollers, orphans, tickVars, sseVars, lastUnsubscribe, queueVars, lastMessage, routeVars, bookVars,
                   tasks, activeSubscriptions, barSubs, ostiumHandlers, sse, calls, everUnder, retired, replaced,
                   appVars, resolveVars>>

ReconnectNext ==
    \/ ServerClosesSocket
    \/ ReconnectTimerFires
    \/ SocketOpens
    \/ SocketFails
    \/ ConnectCall
    \/ CheckConnection
    \/ CandleArrives

ReconnectInit == RouteReady /\ CandlesStreaming /\ AppConstructed /\ BarsResolved /\ LaterConstructed

ReconnectSpec == ReconnectInit /\ [][ReconnectNext]_vars

\* C38: whenever the socket is open, after a reconnect as before it, every
\* channel with a locally registered callback has been subscribed on that
\* socket, so that its callbacks receive the channel's updates.
C38_ResubscribedAfterReconnect ==
    wsState["HYPERLIQUID"] = "OPEN" =>
        \A i \in 1..Len(subscribers["HYPERLIQUID"]) :
            subscribers["HYPERLIQUID"][i].key \in streams["HYPERLIQUID"]

\* C39: when getBars has stored an older bar under the key since the last
\* emitted bar, a tick that falls in the window of that emitted bar still
\* continues it: the bar emitted for the tick has the same time and open, a
\* high at least and a low at most those of the earlier bar.
C39_GetBarsKeepsRealtimeBar ==
    [][ ( /\ lastTick'.n = lastTick.n + 1
          /\ Len(lastEmitted') >= 2
          /\ lastEmitted'[1] # NoBar
          /\ getBarTime(lastTick'.timestamp, BarResolution) = lastEmitted'[1].time
          /\ <<lastTick'.symbol, BarResolution>> \in DOMAIN lastBars
          /\ lastBars[<<lastTick'.symbol, BarResolution>>].time < lastEmitted'[1].time )
        =>
        ( /\ lastEmitted'[2].time = lastEmitted'[1].time
          /\ lastEmitted'[2].open = lastEmitted'[1].open
          /\ lastEmitted'[2].high >= lastEmitted'[1].high
          /\ lastEmitted'[2].low <= lastEmitted'[1].low ) ]_vars

(***************************************************************************)
(* The queue of rate-limited requests: every request is served.            *)
(***************************************************************************)
\* C40: every request in the queue is eventually passed to fetch and its
\* promise settled, however submissions interleave with a running drain, and
\* no request waits in the queue while isProcessingQueue is false.
C40_EveryRequestSettled ==
    /\ [](requestQueue # <<>> => isProcessingQueue)
    /\ \A r \in 1..MaxRequests :
          (r \in Range(requestQueue)) ~> (r \in Range(dispatched) /\ r \notin inFlight)

\* a request waits in the queue while the fetch of the one before it flies, in a
\* drain that has settled a request already
C40_QueuedBehindRunningDrain ==
    /\ requestQueue # <<>>
    /\ processor = "fetching"
    /\ isProcessingQueue
    /\ Range(dispatched) \ inFlight # {}

=============================================================================
